---- MODULE Spec2Model ----
(***************************************************************************)
(* Diagnostic protocol engine of iload-obd2 (src/main.go).                 *)
(*                                                                         *)
(* SpecX: the inbound frame channel shared by the telemetry goroutine      *)
(*        (trouble-code exchange, backlog drain) and the periodic ECU      *)
(*        info / engine map refresh goroutine (getInfo, getMapValue), with *)
(*        the CAN handler feeding the channel.                             *)
(* SpecB: the subscriber registry: wsHandler, broadcastTelemetry and the   *)
(*        shutdown sweep under clientsMux.                                 *)
(* SpecW: one refresh goroutine alone on the bus, with the ECUInfo and the *)
(*        EngineMaps that getECUInfo and getEngineMaps build.              *)
(* SpecT: the telemetry tick step by step, with the bus feeding frameChan. *)
(* SpecS: the telemetry tick next to the refresh goroutine storing into    *)
(*        the shared ecuInfo and engineMaps variables.                     *)
(* SpecD: the telemetry tick under a bus that never stops delivering.      *)
(* SpecC: decodeDTC, processDTCResponse and getEngineMaps' construction of *)
(*        the maps, each called on arguments drawn by the initial state.   *)
(* SpecL: the session from startup, with or without a bus, to the exit of  *)
(*        the process after the shutdown signal.                           *)
(* SpecR: the Recorder of internal/capture (internal/capture/recorder.go). *)
(* SpecF: a capture session written to its file and loaded again           *)
(*        (capture/capture.go).                                            *)
(* SpecV: the vehicle Manager of internal/vehicle under any calls of       *)
(*        RegisterVehicle, GetVehicle and UpdateVehicleState.              *)
(* SpecU: the telemetry goroutine and the CAN handler, every frame of the  *)
(*        bus numbered from Handle to the reader that takes it.            *)
(***************************************************************************)
EXTENDS Integers, Sequences, FiniteSets, TLC

(***************************************************************************)
(* Bounds of the model.                                                    *)
(***************************************************************************)
\* telemetry ticks the 1 s ticker delivers
MaxTicks == 1
\* refresh cycles the 30 s ticker delivers
MaxCycles == 1
\* inbound frames the bus delivers to the handler
MaxFrames == 1
\* capacity of frameChan, make(chan CANFrame, 100), scaled down
ChanCap == 1
\* side of the engine map grid, 16 in the source, scaled down
MapDim == 1
\* websocket connections accepted by the server
MaxConns == 2
\* snapshots the telemetry goroutine publishes
MaxSnaps == 2
\* telemetry ticks of the step by step tick (SpecT)
MaxRounds == 2
\* calls made on a Recorder; frames captured into a capture session
MaxCalls == 3
\* frames the bus hands to the handler when each is followed to its reader (SpecU)
MaxArrivals == 3

(***************************************************************************)
(* Program constants.                                                      *)
(***************************************************************************)
\* 0x7DF, OBD-II functional request id
ReqId == 2015
\* 0x7E8, ECU response id
RespId == 2024
\* 0x123, id of the test traffic on the bus
NoiseId == 291
\* mode 03, read trouble codes
ModeDTC == 3
\* mode 09, vehicle information
ModeInfo == 9
\* 0x43, acknowledgement of mode 03
AckDTC == 67
\* 0x49, acknowledgement of mode 09
AckInfo == 73
\* 0x0E, fuel map
PidFuel == 14
\* 0x0F, timing map
PidTiming == 15

Tasks == {"tele", "refresh"}

VARIABLES
    frameChan,   \* buffered channel of inbound frames, oldest first
    ecuPending,  \* the request the ECU is working on: a set of at most one
    inbound,     \* frames the bus has handed to the handler so far
    ex,          \* per task: its current or last exchange
    tele,        \* telemetry goroutine
    rf,          \* refresh goroutine
    clients,     \* registry of websocket connections
    clientsMux,  \* holder of the mutex, or Free
    ws,          \* per connection: wsHandler position and socket state
    bc,          \* telemetry goroutine as seen by the broadcaster
    sd,          \* shutdown goroutine
    wk,          \* the ECUInfo and EngineMaps the refresh is building
    ecuInfo,     \* main's variable ecuInfo, shared by the two goroutines
    engineMaps,  \* main's variable engineMaps, shared by the two goroutines
    telemetry,   \* the TelemetryData of the tick in progress
    tk,          \* the tick in progress: position, steps done, frames read
    sent,        \* snapshots handed to broadcastTelemetry
    call,        \* a call of a function of the codec: its arguments, its result
    canBus,      \* main's variable canBus: the bus, and whether it is connected
    rec,         \* a capture.Recorder (internal/capture) and the calls made on it
    cap,         \* a capture.Session (capture), its file, the session loaded from it
    mgr,         \* a vehicle.Manager (internal/vehicle) and the calls made on it
    ing          \* the CAN handler: the frame it holds, and who took each frame

busVars == <<frameChan, ecuPending, inbound, ex, tele, rf>>
bcVars == <<clients, clientsMux, ws, bc, sd>>
walkVars == <<wk>>
tickVars == <<ecuInfo, engineMaps, telemetry, tk, sent>>
callVars == <<call>>
lifeVars == <<canBus>>
capVars == <<rec, cap, mgr>>
ingVars == <<ing>>
\* what the specifications of the running engine (SpecX to SpecD) leave as it is
auxVars == <<call, canBus, rec, cap, mgr, ing>>
vars == <<frameChan, ecuPending, inbound, ex, tele, rf,
          clients, clientsMux, ws, bc, sd,
          wk, ecuInfo, engineMaps, telemetry, tk, sent, call, canBus, rec, cap, mgr, ing>>

(***************************************************************************)
(* Frames.  data is the 8 byte payload; D reads it with the source's       *)
(* 0-based index.  re names the exchange whose request the frame answers,  *)
(* <<task, number of the tick or refresh step>>, or NoTag for unsolicited  *)
(* traffic; the program cannot see it.                                     *)
(***************************************************************************)
NoTag == <<"none", 0>>

D(f, i) == f.data[i + 1]

\* the frame as the program holds it: id and data
CANFrame(f) == [id |-> f.id, data |-> f.data]

InfoRequestData(mode, pid) == <<2, mode, pid, 0, 0, 0, 0, 0>>

MapRequestData(pid, x, y) == <<4, ModeInfo, pid, x, y, 0, 0, 0>>

DTCRequestData == <<2, ModeDTC, 0, 0, 0, 0, 0, 0>>

(***************************************************************************)
(* Decoding of response frames.                                            *)
(***************************************************************************)
HexChars == <<"0", "1", "2", "3", "4", "5", "6", "7",
              "8", "9", "A", "B", "C", "D", "E", "F">>

\* fmt.Sprintf("%04X", code) for a 16 bit code
Hex4(code) ==
    HexChars[((code \div 4096) % 16) + 1] \o HexChars[((code \div 256) % 16) + 1]
        \o HexChars[((code \div 16) % 16) + 1] \o HexChars[(code % 16) + 1]

\* a decoder that formats b1 << 8 | b2 without masking the two type bits
decodeDTCNoMask(b1, b2) ==
    IF b1 = 0 /\ b2 = 0
    THEN ""
    ELSE LET dtcType == CASE b1 \div 64 = 0 -> "P"
                          [] b1 \div 64 = 1 -> "C"
                          [] b1 \div 64 = 2 -> "B"
                          [] OTHER -> "U"
             code == b1 * 256 + b2
         IN  dtcType \o Hex4(code)

\* b1 >> 6 selects the letter, (b1 & 0x3F) << 8 | b2 is the code; "" is no code
decodeDTC(b1, b2) ==
    IF b1 = 0 /\ b2 = 0
    THEN ""
    ELSE LET dtcType == CASE b1 \div 64 = 0 -> "P"
                          [] b1 \div 64 = 1 -> "C"
                          [] b1 \div 64 = 2 -> "B"
                          [] OTHER -> "U"
             code == (b1 % 64) * 256 + b2
         IN  dtcType \o Hex4(code)

RECURSIVE DTCPairsWholeFrame(_, _, _)
\* a loop that walks the whole frame, whatever length it declares
DTCPairsWholeFrame(f, numBytes, i) ==
    IF i + 1 < 8
    THEN LET dtc == decodeDTC(D(f, i), D(f, i + 1))
         IN  (IF dtc = "" THEN <<>> ELSE <<dtc>>) \o DTCPairsWholeFrame(f, numBytes, i + 2)
    ELSE <<>>

RECURSIVE DTCPairs(_, _, _)
\* the loop  for i := 2; i < numBytes && i+1 < 8; i += 2
DTCPairs(f, numBytes, i) ==
    IF i < numBytes /\ i + 1 < 8
    THEN LET dtc == decodeDTC(D(f, i), D(f, i + 1))
         IN  (IF dtc = "" THEN <<>> ELSE <<dtc>>) \o DTCPairs(f, numBytes, i + 2)
    ELSE <<>>

\* a decoder that takes every frame for a mode 03 response
processDTCResponseNoCheck(f) == DTCPairs(f, D(f, 0), 2)

\* a decoder that checks the id and the length but not the mode byte
processDTCResponseAnyAck(f) ==
    IF f.id # RespId
    THEN <<>>
    ELSE IF D(f, 0) < 2
    THEN <<>>
    ELSE DTCPairs(f, D(f, 0), 2)

\* nil is modelled as the empty list: the caller appends either
processDTCResponse(f) ==
    IF f.id # RespId
    THEN <<>>
    ELSE IF D(f, 0) < 2 \/ D(f, 1) # AckDTC
    THEN <<>>
    ELSE DTCPairs(f, D(f, 0), 2)

\* whether processDTCResponse takes the frame as a mode 03 response
IsDTCResponse(f) == f.id = RespId /\ D(f, 0) >= 2 /\ D(f, 1) = AckDTC

RECURSIVE InfoBytes(_, _, _)
\* the loop  for i := 2; i < numBytes; i++  keeping the non-zero bytes
InfoBytes(f, numBytes, i) ==
    IF i < numBytes
    THEN (IF D(f, i) # 0 THEN <<D(f, i)>> ELSE <<>>) \o InfoBytes(f, numBytes, i + 1)
    ELSE <<>>

\* err is "none", "id", "format" or "panic" (index out of range, numBytes > 8)
processInfoResponse(f, mode) ==
    IF f.id # RespId
    THEN [err |-> "id", val |-> <<>>]
    ELSE IF D(f, 0) < 2 \/ D(f, 1) # 64 + mode
    THEN [err |-> "format", val |-> <<>>]
    ELSE IF D(f, 0) > 8
    THEN [err |-> "panic", val |-> <<>>]
    ELSE [err |-> "none", val |-> InfoBytes(f, D(f, 0), 2)]

\* a getMapValue that takes any frame of the ECU, whatever its length and mode
mapValueOfNoFormat(f) ==
    IF f.id # RespId
    THEN [err |-> "id", val |-> 0]
    ELSE [err |-> "none", val |-> D(f, 3) * 256 + D(f, 4)]

\* a getMapValue that takes the two bytes low byte first
mapValueOfLowFirst(f) ==
    IF f.id # RespId
    THEN [err |-> "id", val |-> 0]
    ELSE IF D(f, 0) < 5 \/ D(f, 1) # AckInfo
    THEN [err |-> "format", val |-> 0]
    ELSE [err |-> "none", val |-> D(f, 4) * 256 + D(f, 3)]

\* the frame case of getMapValue; val is the stored value times 100
mapValueOf(f) ==
    IF f.id # RespId
    THEN [err |-> "id", val |-> 0]
    ELSE IF D(f, 0) < 5 \/ D(f, 1) # AckInfo
    THEN [err |-> "format", val |-> 0]
    ELSE [err |-> "none", val |-> D(f, 3) * 256 + D(f, 4)]

\* the bytes unicode.IsSpace holds for white space among single byte runes
WhiteSpace == {9, 10, 11, 12, 13, 32}

RECURSIVE TrimLeft(_)
TrimLeft(s) == IF s # <<>> /\ Head(s) \in WhiteSpace THEN TrimLeft(Tail(s)) ELSE s

RECURSIVE TrimRight(_)
TrimRight(s) ==
    IF s # <<>> /\ s[Len(s)] \in WhiteSpace THEN TrimRight(SubSeq(s, 1, Len(s) - 1)) ELSE s

\* strings.TrimSpace on a string of bytes below 0x80
TrimSpace(s) == TrimRight(TrimLeft(s))

(***************************************************************************)
(* The steps of one refresh: getECUInfo's five getInfo calls, then         *)
(* getEngineMaps' cells, fuel before timing, row by row.                   *)
(***************************************************************************)
InfoSteps ==
    << [kind |-> "info", field |-> "VIN",         pid |-> 2,  x |-> 0, y |-> 0],
       [kind |-> "info", field |-> "Version",     pid |-> 10, x |-> 0, y |-> 0],
       [kind |-> "info", field |-> "Calibration", pid |-> 4,  x |-> 0, y |-> 0],
       [kind |-> "info", field |-> "Software",    pid |-> 10, x |-> 0, y |-> 0],
       [kind |-> "info", field |-> "Protocol",    pid |-> 12, x |-> 0, y |-> 0] >>

MapSteps(name, pid) ==
    [k \in 1..(MapDim * MapDim) |->
        [kind |-> "map", field |-> name, pid |-> pid,
         x |-> (k - 1) \div MapDim, y |-> (k - 1) % MapDim]]

Steps == InfoSteps \o MapSteps("Fuel", PidFuel) \o MapSteps("Timing", PidTiming)

RequestData(st) ==
    IF st.kind = "info"
    THEN InfoRequestData(ModeInfo, st.pid)
    ELSE MapRequestData(st.pid, st.x, st.y)

\* what the wait of a refresh step makes of the frame it read
StepResult(st, f) ==
    IF st.kind = "info" THEN processInfoResponse(f, ModeInfo) ELSE mapValueOf(f)

(***************************************************************************)
(* The ECU on the bus: it answers the latest request it has received, if   *)
(* it answers at all, with a response frame carrying the request's mode +  *)
(* 0x40 and its pid.                                                       *)
(***************************************************************************)
EcuReply(req) ==
    LET mode == req.data[2]
        pid == req.data[3]
    IN  IF mode = ModeDTC
        THEN [id |-> RespId, data |-> <<4, AckDTC, 1, 35, 0, 0, 0, 0>>, re |-> req.tag]
        ELSE IF req.data[1] = 2
        THEN [id |-> RespId, data |-> <<4, AckInfo, pid, 65, 0, 0, 0, 0>>, re |-> req.tag]
        ELSE [id |-> RespId, data |-> <<5, AckInfo, pid, 4, 210, 0, 0, 0>>, re |-> req.tag]

\* the frames an ECU can send back: the well-formed reply, or
\*   to mode 03: a negative response (7F 03 11);
\*   to getInfo: a reply without payload, or one whose length byte is 9;
\*   to getMapValue: a reply one byte short.
EcuReplies(req) ==
    LET mode == req.data[2]
        pid == req.data[3]
        R(d) == [id |-> RespId, data |-> d, re |-> req.tag]
    IN  IF mode = ModeDTC
        THEN {EcuReply(req), R(<<3, 127, 3, 17, 0, 0, 0, 0>>)}
        ELSE IF req.data[1] = 2
        THEN {EcuReply(req), R(<<3, AckInfo, pid, 0, 0, 0, 0, 0>>),
              R(<<9, AckInfo, pid, 65, 0, 0, 0, 0>>)}
        ELSE {EcuReply(req), R(<<4, AckInfo, pid, 4, 210, 0, 0, 0>>)}

NoiseFrame == [id |-> NoiseId, data |-> <<84, 69, 83, 84, 0, 0, 0, 0>>, re |-> NoTag]

(***************************************************************************)
(* Initial state: the telemetry and refresh goroutines have just been      *)
(* started, no websocket client has connected.                             *)
(***************************************************************************)
NoExchange == [tag |-> NoTag, state |-> "none", wrote |-> 0, got |-> FALSE]

InitBus ==
    /\ frameChan = <<>>
    /\ ecuPending = {}
    /\ inbound = 0
    /\ ex = [t \in Tasks |-> NoExchange]
    /\ tele = [pc |-> "idle", tick |-> 0, dtcs |-> <<>>, canFrames |-> <<>>]
    /\ rf = [pc |-> "idle", cycle |-> 0, step |-> 0]

(***************************************************************************)
(* The exchange as the three call sites write it: one bus.Publish, then a  *)
(* select on frameChan and on a 100 ms timer.  ex[t] describes the         *)
(* exchange of task t while it waits: the tag of its request, the frames   *)
(* it has written to the bus, whether a valid response has been read.      *)
(* The timer is not a variable: a timeout step is the timer becoming ready *)
(* and the select taking that case.                                        *)
(***************************************************************************)
InFlight(t) == ex[t].state = "wait"

\* bus.Publish(frame) returned nil: the request is on the bus, the timer is armed
PublishOk(t, tag, data) ==
    /\ ecuPending' = {[tag |-> tag, id |-> ReqId, data |-> data]}
    /\ ex' = [ex EXCEPT ![t] = [tag |-> tag, state |-> "wait", wrote |-> 1, got |-> FALSE]]

\* bus.Publish(frame) returned an error: the call returns it, nothing is awaited
PublishFail(t) ==
    /\ UNCHANGED <<ex, ecuPending>>

\* the call returns: its exchange is over
EndExchange(t) == ex' = [ex EXCEPT ![t] = NoExchange]

(***************************************************************************)
(* The refresh goroutine: every 30 s getECUInfo, then getEngineMaps.       *)
(* rf.step is the getInfo or getMapValue call in progress.  The value a    *)
(* call returns (StepResult) goes into the ECUInfo or EngineMaps under     *)
(* construction, which is local to the refresh and not part of this state. *)
(***************************************************************************)
Advance(r) ==
    IF r.step < Len(Steps)
    THEN [r EXCEPT !.pc = "send", !.step = @ + 1]
    ELSE [r EXCEPT !.pc = "idle", !.step = 0]

\* the number of the current refresh step over all cycles
RfTag == <<"refresh", (rf.cycle - 1) * Len(Steps) + rf.step>>

RfTick ==
    /\ rf.pc = "idle"
    /\ rf.cycle < MaxCycles
    /\ rf' = [pc |-> "send", cycle |-> rf.cycle + 1, step |-> 1]
    /\ UNCHANGED <<frameChan, ecuPending, inbound, ex, tele>>

\* sendInfoRequest in getInfo, bus.Publish in getMapValue
RfSend ==
    /\ rf.pc = "send"
    /\ \/ /\ PublishOk("refresh", RfTag, RequestData(Steps[rf.step]))
          /\ rf' = [rf EXCEPT !.pc = "wait"]
       \/ /\ PublishFail("refresh")
          /\ rf' = Advance(rf)
    /\ UNCHANGED <<frameChan, inbound, tele>>

\* case frame := <-frameChan: one frame is read, the call returns what it decodes to
RfRecv ==
    /\ rf.pc = "wait"
    /\ frameChan # <<>>
    /\ EndExchange("refresh")
    /\ frameChan' = Tail(frameChan)
    /\ rf' = Advance(rf)
    /\ UNCHANGED <<ecuPending, inbound, tele>>

\* a timeout that publishes the request again and goes on waiting
RfTimeoutResend ==
    /\ rf.pc = "wait"
    /\ ex["refresh"].wrote < 2
    /\ ex' = [ex EXCEPT !["refresh"].wrote = @ + 1]
    /\ UNCHANGED <<frameChan, ecuPending, inbound, tele, rf>>

\* a timeout that makes the whole refresh return
RfTimeoutAbort ==
    /\ rf.pc = "wait"
    /\ EndExchange("refresh")
    /\ rf' = [rf EXCEPT !.pc = "idle", !.step = 0]
    /\ UNCHANGED <<frameChan, ecuPending, inbound, tele>>

\* case <-timeout
RfTimeout ==
    /\ rf.pc = "wait"
    /\ EndExchange("refresh")
    /\ rf' = Advance(rf)
    /\ UNCHANGED <<frameChan, ecuPending, inbound, tele>>

(***************************************************************************)
(* The telemetry goroutine, every 1 s.  The scalar reads go through        *)
(* device.RunOBDCommand and the reads of ecuInfo and engineMaps touch      *)
(* neither the bus nor frameChan: in SpecX they are part of TeleTick and   *)
(* of TeleDTCTimeout / TeleDTCSend; SpecT has them as steps of their own.  *)
(***************************************************************************)
\* a ticker whose tick starts the body again wherever the last one is
BeginTickAnytime(max) ==
    /\ tele.tick < max
    /\ tele' = [pc |-> "dtcsend", tick |-> tele.tick + 1, dtcs |-> <<>>, canFrames |-> <<>>]
    /\ UNCHANGED <<frameChan, ecuPending, inbound, ex, rf>>

\* for range ticker.C: the body runs again once it has returned to the range;
\* max bounds the ticks of a run
BeginTick(max) ==
    /\ tele.pc = "idle"
    /\ tele.tick < max
    /\ tele' = [pc |-> "dtcsend", tick |-> tele.tick + 1, dtcs |-> <<>>, canFrames |-> <<>>]
    /\ UNCHANGED <<frameChan, ecuPending, inbound, ex, rf>>

TeleTick == BeginTick(MaxTicks)

\* a send whose failure ends the goroutine
TeleDTCSendFatal ==
    /\ tele.pc = "dtcsend"
    /\ \/ /\ PublishOk("tele", <<"tele", tele.tick>>, DTCRequestData)
          /\ tele' = [tele EXCEPT !.pc = "dtcwait"]
       \/ /\ PublishFail("tele")
          /\ tele' = [tele EXCEPT !.pc = "stopped"]
    /\ UNCHANGED <<frameChan, inbound, rf>>

\* sendDTCRequest(canBus)
TeleDTCSend ==
    /\ tele.pc = "dtcsend"
    /\ \/ /\ PublishOk("tele", <<"tele", tele.tick>>, DTCRequestData)
          /\ tele' = [tele EXCEPT !.pc = "dtcwait"]
       \/ /\ PublishFail("tele")
          /\ tele' = [tele EXCEPT !.pc = "drain"]
    /\ UNCHANGED <<frameChan, inbound, rf>>

\* case frame := <-frameChan inside  for !timeoutReached
TeleDTCRecv ==
    /\ tele.pc = "dtcwait"
    /\ frameChan # <<>>
    /\ tele' = [tele EXCEPT !.dtcs = @ \o processDTCResponse(Head(frameChan))]
    /\ ex' = [ex EXCEPT !["tele"].got = @ \/ IsDTCResponse(Head(frameChan))]
    /\ frameChan' = Tail(frameChan)
    /\ UNCHANGED <<ecuPending, inbound, rf>>

\* case <-timeout: timeoutReached = true, the loop ends
TeleDTCTimeout ==
    /\ tele.pc = "dtcwait"
    /\ EndExchange("tele")
    /\ tele' = [tele EXCEPT !.pc = "drain"]
    /\ UNCHANGED <<frameChan, ecuPending, inbound, rf>>

\* a drain that leaves the frame it has read in the channel
TeleDrainKeeps ==
    /\ tele.pc = "drain"
    /\ frameChan # <<>>
    /\ tele' = [tele EXCEPT !.canFrames = Append(@, CANFrame(Head(frameChan)))]
    /\ UNCHANGED <<frameChan, ecuPending, inbound, ex, rf>>

\* the non-blocking drain: case frame := <-frameChan
TeleDrain ==
    /\ tele.pc = "drain"
    /\ frameChan # <<>>
    /\ tele' = [tele EXCEPT !.canFrames = Append(@, CANFrame(Head(frameChan)))]
    /\ frameChan' = Tail(frameChan)
    /\ UNCHANGED <<ecuPending, inbound, ex, rf>>

\* default: goto done
TeleDrainDone ==
    /\ tele.pc = "drain"
    /\ frameChan = <<>>
    /\ tele' = [tele EXCEPT !.pc = "bcast"]
    /\ UNCHANGED <<frameChan, ecuPending, inbound, ex, rf>>

\* broadcastTelemetry(telemetry): the snapshot is handed off, the tick ends
TeleBroadcast ==
    /\ tele.pc = "bcast"
    /\ tele' = [tele EXCEPT !.pc = "idle", !.dtcs = <<>>, !.canFrames = <<>>]
    /\ UNCHANGED <<frameChan, ecuPending, inbound, ex, rf>>

(***************************************************************************)
(* Ingestion: the bus calls CANHandler.Handle for every inbound frame; the *)
(* send on frameChan blocks while the buffer is full.                      *)
(***************************************************************************)
\* a handler that lets go of the frame when the buffer is full
HandleOrDrop(f) ==
    frameChan' = IF Len(frameChan) < ChanCap THEN Append(frameChan, f) ELSE frameChan

Handle(f) ==
    /\ Len(frameChan) < ChanCap
    /\ frameChan' = Append(frameChan, f)

\* the ECU answers the request it is working on
EcuRespond ==
    /\ inbound < MaxFrames
    /\ \E req \in ecuPending :
          /\ Handle(EcuReply(req))
          /\ ecuPending' = ecuPending \ {req}
    /\ inbound' = inbound + 1
    /\ UNCHANGED <<ex, tele, rf>>

\* other traffic reaches the handler
Unsolicited ==
    /\ inbound < MaxFrames
    /\ Handle(NoiseFrame)
    /\ inbound' = inbound + 1
    /\ UNCHANGED <<ecuPending, ex, tele, rf>>

NextX ==
    \/ RfTick /\ UNCHANGED <<auxVars, bcVars, walkVars, tickVars>>
    \/ RfSend /\ UNCHANGED <<auxVars, bcVars, walkVars, tickVars>>
    \/ RfRecv /\ UNCHANGED <<auxVars, bcVars, walkVars, tickVars>>
    \/ RfTimeout /\ UNCHANGED <<auxVars, bcVars, walkVars, tickVars>>
    \/ TeleTick /\ UNCHANGED <<auxVars, bcVars, walkVars, tickVars>>
    \/ TeleDTCSend /\ UNCHANGED <<auxVars, bcVars, walkVars, tickVars>>
    \/ TeleDTCRecv /\ UNCHANGED <<auxVars, bcVars, walkVars, tickVars>>
    \/ TeleDTCTimeout /\ UNCHANGED <<auxVars, bcVars, walkVars, tickVars>>
    \/ TeleDrain /\ UNCHANGED <<auxVars, bcVars, walkVars, tickVars>>
    \/ TeleDrainDone /\ UNCHANGED <<auxVars, bcVars, walkVars, tickVars>>
    \/ TeleBroadcast /\ UNCHANGED <<auxVars, bcVars, walkVars, tickVars>>
    \/ EcuRespond /\ UNCHANGED <<auxVars, bcVars, walkVars, tickVars>>
    \/ Unsolicited /\ UNCHANGED <<auxVars, bcVars, walkVars, tickVars>>

(***************************************************************************)
(* The subscriber registry.  A connection is one run of wsHandler.         *)
(*   ws[c].pc    position of its wsHandler                                 *)
(*   ws[c].open  the local socket has not been closed                      *)
(*   ws[c].up    the peer still reads and answers: writes and reads on a   *)
(*               connection whose peer is gone fail                        *)
(*   ws[c].got   the snapshots written to it with success, in order        *)
(*   ws[c].since the number of publishes begun when it was added           *)
(*   ws[c].fails the writes to it that failed                              *)
(***************************************************************************)
Conns == 1..MaxConns

\* the mutex is held by nobody
Free == <<"free", 0>>

InitBc ==
    /\ clients = {}
    /\ clientsMux = Free
    /\ ws = [c \in Conns |-> [pc |-> "new", open |-> FALSE, up |-> FALSE,
                              got |-> <<>>, since |-> 0, fails |-> 0]]
    /\ bc = [pc |-> "idle", n |-> 0, seen |-> {}, cur |-> 0]
    /\ sd = [pc |-> "wait"]

(***************************************************************************)
(* The structures getECUInfo and getEngineMaps allocate.  A string is the  *)
(* sequence of its bytes, <<>> the empty string of a field never assigned. *)
(* Map values are held times 100, as mapValueOf returns them, and the load *)
(* axis in hundredths (6.25 is 625).                                       *)
(***************************************************************************)
InfoFields ==
    {"VIN", "Version", "Calibration", "Hardware", "Software", "Protocol", "BuildDate"}

\* info := &ECUInfo{}
NewECUInfo == [f \in InfoFields |-> <<>>]

Idx == 0..(MapDim - 1)

\* float64(i) * 500: RPM steps
AxisX(i) == i * 500

\* a load axis in steps of whole percents
AxisYWhole(i) == i * 600

\* float64(i) * 6.25, in hundredths: 6.25 and its multiples up to 15 * 6.25
\* are binary fractions, the products are exact
AxisY(i) == i * 625

\* a MapData with its axes initialised and its rows allocated
NewMapData ==
    [Values |-> [i \in Idx |-> [j \in Idx |-> 0]],
     XAxis |-> [i \in Idx |-> AxisX(i)],
     YAxis |-> [i \in Idx |-> AxisY(i)]]

NewEngineMaps == [Fuel |-> NewMapData, Timing |-> NewMapData]

\* no frame: the call did not read the channel
NoFrame == [id |-> 0, data |-> <<>>]

(***************************************************************************)
(* wk: the refresh in progress, or the last one.                           *)
(*   wk.info, wk.maps  the ECUInfo and EngineMaps under construction       *)
(*   wk.ok     the steps whose getInfo / getMapValue returned a nil error  *)
(*   wk.read   per step, the frame its select read, or NoFrame             *)
(*   wk.calls  the requests handed to bus.Publish, in order                *)
(*   wk.crashed  processInfoResponse indexed frame.Data out of range: the  *)
(*             goroutine panics and the process ends                        *)
(***************************************************************************)
NewWalk ==
    [info |-> NewECUInfo, ok |-> {}, maps |-> NewEngineMaps,
     read |-> [k \in 1..Len(Steps) |-> NoFrame], calls |-> <<>>, crashed |-> FALSE]

\* before the first refresh of the goroutine nothing is allocated
NoWalk == [calls |-> <<>>, crashed |-> FALSE]

InitWalk == wk = NoWalk

(***************************************************************************)
(* The shared variables ecuInfo and engineMaps hold a pointer: inst is the *)
(* number of the refresh that built the instance pointed to, 0 for the one *)
(* main built before it started the goroutines.  No mutex, channel or      *)
(* atomic orders the refresh goroutine's assignment before the telemetry   *)
(* goroutine's read: synced tells that the writes of the refresh goroutine *)
(* (the fields of the instance, then the pointer) have all become visible  *)
(* to the telemetry goroutine.  json.Marshal in broadcastTelemetry reads   *)
(* the fields through the pointer the tick copied: what it obtains is a    *)
(* view, the instance and whether all of its fields were seen as written.  *)
(***************************************************************************)

\* var ecuInfo *ECUInfo: the nil pointer
Nil == -1

\* telemetry := TelemetryData{}; ECUInfo and EngineMaps hold the instance
\* pointed to
NewTelemetry == [RPM |-> 0, Speed |-> 0, Temp |-> 0, ECUInfo |-> Nil, EngineMaps |-> Nil]

\* no snapshot has been handed to broadcastTelemetry
NoSnapshot == [n |-> 0]

(***************************************************************************)
(* tk: the tick in progress.                                               *)
(*   tk.sub   the statement of the loop body that runs next                *)
(*   tk.log   the statements of the body done in this tick, in order       *)
(*   tk.read  the frames the wait of the trouble code exchange has read    *)
(* sent: the number of snapshots handed to broadcastTelemetry and, of the  *)
(* last one, the trouble codes and the ECUInfo and EngineMaps as           *)
(* json.Marshal read them.                                                 *)
(***************************************************************************)
InitTick ==
    /\ ecuInfo = [inst |-> 0, synced |-> TRUE]
    /\ engineMaps = [inst |-> 0, synced |-> TRUE]
    /\ telemetry = NewTelemetry
    /\ tk = [sub |-> "idle", log |-> <<>>, read |-> <<>>]
    /\ sent = NoSnapshot

\* no function of the codec is being called
NoCall == [fn |-> "none"]

InitCall == call = NoCall

(***************************************************************************)
(* canBus.st is "nil" when can.NewBusForInterfaceWithName failed, "up"     *)
(* while the bus is connected, "down" once Disconnect has been called.     *)
(* canBus.early: the goroutine main starts right after Subscribe has not   *)
(* run yet; all it does is log a line and, deferred, canBus.Disconnect().  *)
(***************************************************************************)
BusUp == [st |-> "up", early |-> TRUE]

NoBus == [st |-> "nil", early |-> FALSE]

InitLife == canBus = BusUp

(***************************************************************************)
(* rec: a Recorder as NewRecorder returns it.                              *)
(*   rec.running   the field running                                       *)
(*   rec.frames    session.Frames, each frame by its Type and Timestamp    *)
(*   rec.handlers  the frame types a handler is registered for             *)
(*   rec.calls     the calls made on the recorder, in order, each with     *)
(*                 whether it returned an error                            *)
(* cap: no capture session has been created.                               *)
(* mgr: a Manager as NewManager returns it.                                *)
(*   mgr.vehicles  the map vehicles, VIN -> Vehicle (its fields Make,       *)
(*                 Model, Year, State and LastUpdated)                     *)
(*   mgr.calls     the calls made so far; time.Now() in a call reads the   *)
(*                 number of that call                                     *)
(*   mgr.last      the last call made on the manager and what it returned  *)
(***************************************************************************)
NewRecorder == [running |-> FALSE, frames |-> <<>>, handlers |-> {}, calls |-> <<>>]

NoSession == [pc |-> "none"]

\* func NewManager() *Manager
NewManager == [vehicles |-> [x \in {} |-> [exists |-> FALSE]], calls |-> 0,
               last |-> [op |-> "none"]]

InitCap == rec = NewRecorder /\ cap = NoSession /\ mgr = NewManager

(***************************************************************************)
(* ing: the CAN handler as the bus sees it.                                *)
(*   ing.held   the frame Handle has been called with and has not yet sent *)
(*              on frameChan: a sequence of at most one frame              *)
(*   ing.taken  the frames read off frameChan, in the order they were      *)
(*              read, each with the tick that read it and whether the      *)
(*              trouble code wait or the drain read it                     *)
(***************************************************************************)
NoIngest == [held |-> <<>>, taken |-> <<>>]

InitIng == ing = NoIngest

Init ==
    InitBus /\ InitBc /\ InitWalk /\ InitTick /\ InitCall /\ InitLife /\ InitCap /\ InitIng

\* the process has not exited: main returns once done is closed
Alive == sd.pc # "exited"

\* a Lock that does not wait for the holder
LockNoWait(who) == clientsMux' = who

\* clientsMux.Lock() by task who
Lock(who) ==
    /\ clientsMux = Free
    /\ clientsMux' = who

\* clientsMux.Unlock()
Unlock == clientsMux' = Free

\* upgrader.Upgrade succeeded
WsUpgrade(c) ==
    /\ Alive
    /\ ws[c].pc = "new"
    /\ ws' = [ws EXCEPT ![c].pc = "add", ![c].open = TRUE, ![c].up = TRUE]
    /\ UNCHANGED <<clients, clientsMux, bc, sd>>

WsAddLock(c) ==
    /\ Alive
    /\ ws[c].pc = "add"
    /\ Lock(<<"ws", c>>)
    /\ ws' = [ws EXCEPT ![c].pc = "adding"]
    /\ UNCHANGED <<clients, bc, sd>>

\* clients[ws] = true; clientsMux.Unlock()
WsAdd(c) ==
    /\ Alive
    /\ ws[c].pc = "adding"
    /\ clients' = clients \cup {c}
    /\ Unlock
    /\ ws' = [ws EXCEPT ![c].pc = "reading", ![c].since = bc.n]
    /\ UNCHANGED <<bc, sd>>

\* the peer goes away
PeerDown(c) ==
    /\ Alive
    /\ ws[c].pc = "reading"
    /\ ws[c].up
    /\ ws' = [ws EXCEPT ![c].up = FALSE]
    /\ UNCHANGED <<clients, clientsMux, bc, sd>>

\* ws.ReadMessage() returns an error: the loop breaks, the deferred function runs
WsReadError(c) ==
    /\ Alive
    /\ ws[c].pc = "reading"
    /\ ~ws[c].up \/ ~ws[c].open
    /\ ws' = [ws EXCEPT ![c].pc = "del"]
    /\ UNCHANGED <<clients, clientsMux, bc, sd>>

WsDelLock(c) ==
    /\ Alive
    /\ ws[c].pc = "del"
    /\ Lock(<<"ws", c>>)
    /\ ws' = [ws EXCEPT ![c].pc = "deleting"]
    /\ UNCHANGED <<clients, bc, sd>>

\* delete(clients, ws); clientsMux.Unlock(); ws.Close()
WsDel(c) ==
    /\ Alive
    /\ ws[c].pc = "deleting"
    /\ clients' = clients \ {c}
    /\ Unlock
    /\ ws' = [ws EXCEPT ![c].pc = "closed", ![c].open = FALSE]
    /\ UNCHANGED <<bc, sd>>

(***************************************************************************)
(* broadcastTelemetry, called by the telemetry goroutine once per tick.    *)
(* bc.n numbers the snapshots; bc.seen are the entries the range loop has  *)
(* produced; bc.cur is the connection whose WriteMessage has not returned. *)
(***************************************************************************)
\* clientsMux.Lock(); json.Marshal(data)
BcLock ==
    /\ Alive
    /\ bc.pc = "idle"
    /\ bc.n < MaxSnaps
    /\ Lock(<<"bc", 0>>)
    /\ bc' = [pc |-> "iter", n |-> bc.n + 1, seen |-> {}, cur |-> 0]
    /\ UNCHANGED <<clients, ws, sd>>

\* for client := range clients: the next entry; client.WriteMessage is called
BcWriteBegin(c) ==
    /\ Alive
    /\ bc.pc = "iter"
    /\ c \in clients \ bc.seen
    /\ bc' = [bc EXCEPT !.pc = "write", !.cur = c, !.seen = @ \cup {c}]
    /\ UNCHANGED <<clients, clientsMux, ws, sd>>

\* WriteMessage returned nil
BcWriteOk ==
    /\ Alive
    /\ bc.pc = "write"
    /\ ws[bc.cur].up /\ ws[bc.cur].open
    /\ ws' = [ws EXCEPT ![bc.cur].got = Append(@, bc.n)]
    /\ bc' = [bc EXCEPT !.pc = "iter", !.cur = 0]
    /\ UNCHANGED <<clients, clientsMux, sd>>

\* a failed write that closes the connection but leaves it in the registry
BcWriteFailKeep ==
    /\ Alive
    /\ bc.pc = "write"
    /\ ~ws[bc.cur].up \/ ~ws[bc.cur].open
    /\ ws' = [ws EXCEPT ![bc.cur].open = FALSE, ![bc.cur].fails = IF @ < 2 THEN @ + 1 ELSE @]
    /\ bc' = [bc EXCEPT !.pc = "iter", !.cur = 0]
    /\ UNCHANGED <<clients, clientsMux, sd>>

\* WriteMessage returned an error: client.Close(); delete(clients, client)
BcWriteFail ==
    /\ Alive
    /\ bc.pc = "write"
    /\ ~ws[bc.cur].up \/ ~ws[bc.cur].open
    /\ ws' = [ws EXCEPT ![bc.cur].open = FALSE, ![bc.cur].fails = @ + 1]
    /\ clients' = clients \ {bc.cur}
    /\ bc' = [bc EXCEPT !.pc = "iter", !.cur = 0]
    /\ UNCHANGED <<clientsMux, sd>>

\* a loop that may stop before every entry has been produced
BcDoneEarly ==
    /\ Alive
    /\ bc.pc = "iter"
    /\ Unlock
    /\ bc' = [bc EXCEPT !.pc = "idle", !.seen = {}]
    /\ UNCHANGED <<clients, ws, sd>>

\* the range loop is over; the deferred clientsMux.Unlock()
BcDone ==
    /\ Alive
    /\ bc.pc = "iter"
    /\ clients \ bc.seen = {}
    /\ Unlock
    /\ bc' = [bc EXCEPT !.pc = "idle", !.seen = {}]
    /\ UNCHANGED <<clients, ws, sd>>

(***************************************************************************)
(* The shutdown goroutine: <-stop, the sweep of clients under the mutex,   *)
(* canBus.Disconnect(), close(done); main then returns.                    *)
(***************************************************************************)
\* the interrupt signal arrives: close(stop)
SdSignal ==
    /\ sd.pc = "wait"
    /\ sd' = [sd EXCEPT !.pc = "lock"]
    /\ UNCHANGED <<clients, clientsMux, ws, bc>>

SdLock ==
    /\ sd.pc = "lock"
    /\ Lock(<<"sd", 0>>)
    /\ sd' = [sd EXCEPT !.pc = "sweep"]
    /\ UNCHANGED <<clients, ws, bc>>

\* client.Close(); delete(clients, client)
SdSweep(c) ==
    /\ sd.pc = "sweep"
    /\ c \in clients
    /\ ws' = [ws EXCEPT ![c].open = FALSE]
    /\ clients' = clients \ {c}
    /\ UNCHANGED <<clientsMux, bc, sd>>

\* clientsMux.Unlock(); canBus.Disconnect(); close(done)
SdUnlock ==
    /\ sd.pc = "sweep"
    /\ clients = {}
    /\ Unlock
    /\ sd' = [sd EXCEPT !.pc = "done"]
    /\ UNCHANGED <<clients, ws, bc>>

\* <-done in main: the process exits
SdExit ==
    /\ sd.pc = "done"
    /\ sd' = [sd EXCEPT !.pc = "exited"]
    /\ UNCHANGED <<clients, clientsMux, ws, bc>>

NextB ==
    \/ (\E c \in Conns : WsUpgrade(c)) /\ UNCHANGED <<auxVars, busVars, walkVars, tickVars>>
    \/ (\E c \in Conns : WsAddLock(c)) /\ UNCHANGED <<auxVars, busVars, walkVars, tickVars>>
    \/ (\E c \in Conns : WsAdd(c)) /\ UNCHANGED <<auxVars, busVars, walkVars, tickVars>>
    \/ (\E c \in Conns : PeerDown(c)) /\ UNCHANGED <<auxVars, busVars, walkVars, tickVars>>
    \/ (\E c \in Conns : WsReadError(c)) /\ UNCHANGED <<auxVars, busVars, walkVars, tickVars>>
    \/ (\E c \in Conns : WsDelLock(c)) /\ UNCHANGED <<auxVars, busVars, walkVars, tickVars>>
    \/ (\E c \in Conns : WsDel(c)) /\ UNCHANGED <<auxVars, busVars, walkVars, tickVars>>
    \/ BcLock /\ UNCHANGED <<auxVars, busVars, walkVars, tickVars>>
    \/ (\E c \in Conns : BcWriteBegin(c)) /\ UNCHANGED <<auxVars, busVars, walkVars, tickVars>>
    \/ BcWriteOk /\ UNCHANGED <<auxVars, busVars, walkVars, tickVars>>
    \/ BcWriteFail /\ UNCHANGED <<auxVars, busVars, walkVars, tickVars>>
    \/ BcDone /\ UNCHANGED <<auxVars, busVars, walkVars, tickVars>>
    \/ SdSignal /\ UNCHANGED <<auxVars, busVars, walkVars, tickVars>>
    \/ SdLock /\ UNCHANGED <<auxVars, busVars, walkVars, tickVars>>
    \/ (\E c \in Conns : SdSweep(c)) /\ UNCHANGED <<auxVars, busVars, walkVars, tickVars>>
    \/ SdUnlock /\ UNCHANGED <<auxVars, busVars, walkVars, tickVars>>
    \/ SdExit /\ UNCHANGED <<auxVars, busVars, walkVars, tickVars>>

SpecX == Init /\ [][NextX]_vars

SpecB == Init /\ [][NextB]_vars

(***************************************************************************)
(* SpecW: the refresh goroutine with what it builds.  Each action is the   *)
(* step of the exchange together with what getECUInfo or getEngineMaps     *)
(* does with the value the call returns.                                   *)
(***************************************************************************)
\* the ticker fires: getECUInfo allocates info, getEngineMaps will allocate maps
WTick ==
    /\ ~wk.crashed
    /\ RfTick
    /\ wk' = NewWalk

\* the request is handed to bus.Publish, whether it succeeds or not
WSend ==
    /\ ~wk.crashed
    /\ RfSend
    /\ wk' = [wk EXCEPT !.calls = Append(@, [id |-> ReqId, data |-> RequestData(Steps[rf.step])])]

\* if val, err := getInfo(..); err == nil { info.F = strings.TrimSpace(val) }
\* if val, err := getMapValue(pid, i, j); err == nil { Values[i][j] = val }
Store(w, st, res) ==
    IF res.err # "none"
    THEN w
    ELSE IF st.kind = "info"
    THEN [w EXCEPT !.info[st.field] = TrimSpace(res.val)]
    ELSE [w EXCEPT !.maps[st.field].Values[st.x][st.y] = res.val]

\* the select reads a frame; the call returns what the frame decodes to
WRecv ==
    /\ ~wk.crashed
    /\ RfRecv
    /\ LET st == Steps[rf.step]
            f == Head(frameChan)
            res == StepResult(st, f)
       IN  wk' = [Store(wk, st, res) EXCEPT
                     !.ok = IF res.err = "none" THEN @ \cup {rf.step} ELSE @,
                     !.read[rf.step] = CANFrame(f),
                     !.crashed = (res.err = "panic")]

\* the select takes the timer: the call returns an error, nothing is stored
WTimeout ==
    /\ ~wk.crashed
    /\ RfTimeout
    /\ UNCHANGED wk

\* the ECU answers the request it is working on with one of its replies
EcuRespondAny ==
    /\ ~wk.crashed
    /\ inbound < MaxFrames
    /\ \E req \in ecuPending :
          /\ \E f \in EcuReplies(req) : Handle(f)
          /\ ecuPending' = ecuPending \ {req}
    /\ inbound' = inbound + 1
    /\ UNCHANGED <<ex, tele, rf, wk>>

WUnsolicited ==
    /\ ~wk.crashed
    /\ Unsolicited
    /\ UNCHANGED wk

\* a step of the refresh goroutine inside a call: it is scheduled, or its
\* 100 ms timer fires
WStep ==
    \/ WSend /\ UNCHANGED <<auxVars, bcVars, tickVars>>
    \/ WRecv /\ UNCHANGED <<auxVars, bcVars, tickVars>>
    \/ WTimeout /\ UNCHANGED <<auxVars, bcVars, tickVars>>

NextW ==
    \/ WTick /\ UNCHANGED <<auxVars, bcVars, tickVars>>
    \/ WSend /\ UNCHANGED <<auxVars, bcVars, tickVars>>
    \/ WRecv /\ UNCHANGED <<auxVars, bcVars, tickVars>>
    \/ WTimeout /\ UNCHANGED <<auxVars, bcVars, tickVars>>
    \/ EcuRespondAny /\ UNCHANGED <<auxVars, bcVars, tickVars>>
    \/ WUnsolicited /\ UNCHANGED <<auxVars, bcVars, tickVars>>

SpecW == Init /\ [][NextW]_vars

(***************************************************************************)
(* SpecT: the body of the telemetry loop, statement by statement.  The     *)
(* refresh goroutine appears as the two assignments it makes to the shared *)
(* variables (what it assigns is built as in SpecW); they are steps of     *)
(* SpecS.                                                                  *)
(***************************************************************************)
\* for range ticker.C { telemetry := TelemetryData{} ...
TTick ==
    /\ BeginTick(MaxRounds)
    /\ telemetry' = NewTelemetry
    /\ tk' = [sub |-> "RPM", log |-> <<>>, read |-> <<>>]
    /\ UNCHANGED <<ecuInfo, engineMaps, sent>>

\* device.RunOBDCommand for one scalar: the field is assigned if the command
\* succeeded, else it is left as it is.  The sensors report the number of the
\* tick, so that a value tells in which tick it was read.
TScalar(field, next) ==
    /\ tele.pc = "dtcsend"
    /\ tk.sub = field
    /\ \/ telemetry' = [telemetry EXCEPT ![field] = tele.tick]
       \/ UNCHANGED telemetry
    /\ tk' = [tk EXCEPT !.sub = next, !.log = Append(@, field)]
    /\ UNCHANGED <<busVars, ecuInfo, engineMaps, sent>>

TReadRPM == TScalar("RPM", "Speed")

TReadSpeed == TScalar("Speed", "Temp")

TReadTemp == TScalar("Temp", "DTCs")

\* dtcs := []string{}; sendDTCRequest(canBus)
TDTCSend ==
    /\ tk.sub = "DTCs"
    /\ TeleDTCSend
    /\ tk' = [tk EXCEPT !.sub = "ECUInfo", !.log = Append(@, "DTCs")]
    /\ UNCHANGED <<ecuInfo, engineMaps, telemetry, sent>>

TDTCRecv ==
    /\ TeleDTCRecv
    /\ tk' = [tk EXCEPT !.read = Append(@, CANFrame(Head(frameChan)))]
    /\ UNCHANGED <<ecuInfo, engineMaps, telemetry, sent>>

TDTCTimeout ==
    /\ TeleDTCTimeout
    /\ UNCHANGED tickVars

\* the pointers a read of the shared variable can obtain: the one stored
\* last or, while that store has not become visible, the one before it
Loads(shared) ==
    IF shared.synced THEN {shared.inst} ELSE {shared.inst, shared.inst - 1}

\* a read that skips the engine maps
TReadECUInfoOnly ==
    /\ tele.pc = "drain"
    /\ tk.sub = "ECUInfo"
    /\ \E ptr \in Loads(ecuInfo) : telemetry' = [telemetry EXCEPT !.ECUInfo = ptr]
    /\ tk' = [tk EXCEPT !.sub = "CANFrames", !.log = Append(@, "ECUInfo")]
    /\ UNCHANGED <<busVars, ecuInfo, engineMaps, sent>>

\* telemetry.ECUInfo = ecuInfo
TReadECUInfo ==
    /\ tele.pc = "drain"
    /\ tk.sub = "ECUInfo"
    /\ \E ptr \in Loads(ecuInfo) : telemetry' = [telemetry EXCEPT !.ECUInfo = ptr]
    /\ tk' = [tk EXCEPT !.sub = "EngineMaps", !.log = Append(@, "ECUInfo")]
    /\ UNCHANGED <<busVars, ecuInfo, engineMaps, sent>>

\* telemetry.EngineMaps = engineMaps
TReadEngineMaps ==
    /\ tele.pc = "drain"
    /\ tk.sub = "EngineMaps"
    /\ \E ptr \in Loads(engineMaps) : telemetry' = [telemetry EXCEPT !.EngineMaps = ptr]
    /\ tk' = [tk EXCEPT !.sub = "CANFrames", !.log = Append(@, "EngineMaps")]
    /\ UNCHANGED <<busVars, ecuInfo, engineMaps, sent>>

TDrain ==
    /\ tk.sub = "CANFrames"
    /\ TeleDrain
    /\ UNCHANGED tickVars

TDrainDone ==
    /\ tk.sub = "CANFrames"
    /\ TeleDrainDone
    /\ tk' = [tk EXCEPT !.sub = "broadcast", !.log = Append(@, "CANFrames")]
    /\ UNCHANGED <<ecuInfo, engineMaps, telemetry, sent>>

\* what json.Marshal reads through a pointer: every field as the refresh
\* wrote it, unless the pointer is to the instance stored last and the
\* writes of the refresh goroutine have not all become visible
Views(ptr, shared) ==
    {[inst |-> ptr, whole |-> w] :
        w \in IF ptr = shared.inst /\ ~shared.synced THEN BOOLEAN ELSE {TRUE}}

\* broadcastTelemetry(telemetry): json.Marshal(data), then the writes
TBroadcast ==
    /\ TeleBroadcast
    /\ \E vi \in Views(telemetry.ECUInfo, ecuInfo) :
       \E vm \in Views(telemetry.EngineMaps, engineMaps) :
          sent' = [n |-> sent.n + 1, DTCs |-> tele.dtcs, ECUInfo |-> vi, EngineMaps |-> vm]
    /\ telemetry' = NewTelemetry
    /\ tk' = [sub |-> "idle", log |-> <<>>, read |-> <<>>]
    /\ UNCHANGED <<ecuInfo, engineMaps>>

\* if info, err := getECUInfo(canBus, frameChan); err == nil { ecuInfo = info }
TStoreECUInfo ==
    /\ ecuInfo.inst < MaxCycles
    /\ ecuInfo.inst = engineMaps.inst
    /\ ecuInfo' = [inst |-> ecuInfo.inst + 1, synced |-> FALSE]
    /\ UNCHANGED <<busVars, engineMaps, telemetry, tk, sent>>

\* if maps, err := getEngineMaps(canBus, frameChan); err == nil { engineMaps = maps }
TStoreEngineMaps ==
    /\ engineMaps.inst < ecuInfo.inst
    /\ engineMaps' = [inst |-> engineMaps.inst + 1, synced |-> FALSE]
    /\ UNCHANGED <<busVars, ecuInfo, telemetry, tk, sent>>

\* the writes of the refresh goroutine have reached the telemetry goroutine
TVisible ==
    /\ ~ecuInfo.synced \/ ~engineMaps.synced
    /\ ecuInfo' = [ecuInfo EXCEPT !.synced = TRUE]
    /\ engineMaps' = [engineMaps EXCEPT !.synced = TRUE]
    /\ UNCHANGED <<busVars, telemetry, tk, sent>>

\* a step of the telemetry goroutine inside the loop body
TStep ==
    \/ TReadRPM /\ UNCHANGED <<auxVars, bcVars, walkVars>>
    \/ TReadSpeed /\ UNCHANGED <<auxVars, bcVars, walkVars>>
    \/ TReadTemp /\ UNCHANGED <<auxVars, bcVars, walkVars>>
    \/ TDTCSend /\ UNCHANGED <<auxVars, bcVars, walkVars>>
    \/ TDTCRecv /\ UNCHANGED <<auxVars, bcVars, walkVars>>
    \/ TDTCTimeout /\ UNCHANGED <<auxVars, bcVars, walkVars>>
    \/ TReadECUInfo /\ UNCHANGED <<auxVars, bcVars, walkVars>>
    \/ TReadEngineMaps /\ UNCHANGED <<auxVars, bcVars, walkVars>>
    \/ TDrain /\ UNCHANGED <<auxVars, bcVars, walkVars>>
    \/ TDrainDone /\ UNCHANGED <<auxVars, bcVars, walkVars>>
    \/ TBroadcast /\ UNCHANGED <<auxVars, bcVars, walkVars>>

NextT ==
    \/ TTick /\ UNCHANGED <<auxVars, bcVars, walkVars>>
    \/ TReadRPM /\ UNCHANGED <<auxVars, bcVars, walkVars>>
    \/ TReadSpeed /\ UNCHANGED <<auxVars, bcVars, walkVars>>
    \/ TReadTemp /\ UNCHANGED <<auxVars, bcVars, walkVars>>
    \/ TDTCSend /\ UNCHANGED <<auxVars, bcVars, walkVars>>
    \/ TDTCRecv /\ UNCHANGED <<auxVars, bcVars, walkVars>>
    \/ TDTCTimeout /\ UNCHANGED <<auxVars, bcVars, walkVars>>
    \/ TReadECUInfo /\ UNCHANGED <<auxVars, bcVars, walkVars>>
    \/ TReadEngineMaps /\ UNCHANGED <<auxVars, bcVars, walkVars>>
    \/ TDrain /\ UNCHANGED <<auxVars, bcVars, walkVars>>
    \/ TDrainDone /\ UNCHANGED <<auxVars, bcVars, walkVars>>
    \/ TBroadcast /\ UNCHANGED <<auxVars, bcVars, walkVars>>
    \/ EcuRespondAny /\ UNCHANGED <<auxVars, bcVars, tickVars>>
    \/ WUnsolicited /\ UNCHANGED <<auxVars, bcVars, tickVars>>

SpecT == Init /\ [][NextT]_vars

(***************************************************************************)
(* SpecS: the telemetry loop on a silent bus next to the refresh goroutine *)
(* assigning the shared variables.                                         *)
(***************************************************************************)
NextS ==
    \/ TTick /\ UNCHANGED <<auxVars, bcVars, walkVars>>
    \/ TReadRPM /\ UNCHANGED <<auxVars, bcVars, walkVars>>
    \/ TReadSpeed /\ UNCHANGED <<auxVars, bcVars, walkVars>>
    \/ TReadTemp /\ UNCHANGED <<auxVars, bcVars, walkVars>>
    \/ TDTCSend /\ UNCHANGED <<auxVars, bcVars, walkVars>>
    \/ TDTCTimeout /\ UNCHANGED <<auxVars, bcVars, walkVars>>
    \/ TReadECUInfo /\ UNCHANGED <<auxVars, bcVars, walkVars>>
    \/ TReadEngineMaps /\ UNCHANGED <<auxVars, bcVars, walkVars>>
    \/ TDrainDone /\ UNCHANGED <<auxVars, bcVars, walkVars>>
    \/ TBroadcast /\ UNCHANGED <<auxVars, bcVars, walkVars>>
    \/ TStoreECUInfo /\ UNCHANGED <<auxVars, bcVars, walkVars>>
    \/ TStoreEngineMaps /\ UNCHANGED <<auxVars, bcVars, walkVars>>
    \/ TVisible /\ UNCHANGED <<auxVars, bcVars, walkVars>>

SpecS == Init /\ [][NextS]_vars

(***************************************************************************)
(* SpecD: the telemetry loop under a bus that delivers frames without end. *)
(* The snapshot's CANFrames grow with every frame drained; here only the   *)
(* frame drained last is kept, so that a run of any length has finitely    *)
(* many states.                                                            *)
(***************************************************************************)
\* case frame := <-frameChan: telemetry.CANFrames = append(telemetry.CANFrames, frame)
DDrain ==
    /\ tele.pc = "drain"
    /\ frameChan # <<>>
    /\ tele' = [tele EXCEPT !.canFrames = <<CANFrame(Head(frameChan))>>]
    /\ frameChan' = Tail(frameChan)
    /\ UNCHANGED <<ecuPending, inbound, ex, rf>>

\* the bus calls Handle for one more frame
DIngest ==
    /\ Handle(NoiseFrame)
    /\ UNCHANGED <<ecuPending, inbound, ex, tele, rf>>

\* a step of the telemetry goroutine inside the loop body
DStep ==
    \/ TeleDTCSend /\ UNCHANGED <<auxVars, bcVars, walkVars, tickVars>>
    \/ TeleDTCRecv /\ UNCHANGED <<auxVars, bcVars, walkVars, tickVars>>
    \/ TeleDTCTimeout /\ UNCHANGED <<auxVars, bcVars, walkVars, tickVars>>
    \/ DDrain /\ UNCHANGED <<auxVars, bcVars, walkVars, tickVars>>
    \/ TeleDrainDone /\ UNCHANGED <<auxVars, bcVars, walkVars, tickVars>>
    \/ TeleBroadcast /\ UNCHANGED <<auxVars, bcVars, walkVars, tickVars>>

NextD ==
    \/ BeginTick(MaxRounds) /\ UNCHANGED <<auxVars, bcVars, walkVars, tickVars>>
    \/ TeleDTCSend /\ UNCHANGED <<auxVars, bcVars, walkVars, tickVars>>
    \/ TeleDTCRecv /\ UNCHANGED <<auxVars, bcVars, walkVars, tickVars>>
    \/ TeleDTCTimeout /\ UNCHANGED <<auxVars, bcVars, walkVars, tickVars>>
    \/ DDrain /\ UNCHANGED <<auxVars, bcVars, walkVars, tickVars>>
    \/ TeleDrainDone /\ UNCHANGED <<auxVars, bcVars, walkVars, tickVars>>
    \/ TeleBroadcast /\ UNCHANGED <<auxVars, bcVars, walkVars, tickVars>>
    \/ EcuRespondAny /\ UNCHANGED <<auxVars, bcVars, tickVars>>
    \/ DIngest /\ UNCHANGED <<auxVars, bcVars, walkVars, tickVars>>

\* the telemetry goroutine is scheduled, and the 100 ms timer of its exchange
\* fires: inside the loop body it takes its next step
SpecD == Init /\ [][NextD]_vars /\ WF_vars(DStep)

(***************************************************************************)
(* SpecC: the functions that compute without the bus, each called once on  *)
(* arguments the initial state draws.                                      *)
(*   decodeDTC on every pair of bytes;                                     *)
(*   processDTCResponse on frames of either id, with every length byte     *)
(*     that matters, three mode bytes and three values for each of the     *)
(*     six bytes that follow;                                              *)
(*   getEngineMaps with its slices at their length in the source           *)
(*     (AxisLen), the cells it asks for being those of Steps and the       *)
(*     result of each getMapValue one the call can return.                 *)
(***************************************************************************)
Bytes == 0..255

\* length bytes: below 2, every end of the pair loop, beyond the frame
LenBytes == {0, 1, 2, 3, 4, 5, 6, 7, 8, 255}

\* the mode 03 acknowledgement, the request's own mode byte, a negative response
AckBytes == {AckDTC, ModeDTC, 127}

PairBytes == {0, 1, 35}

\* make([]float64, 16)
AxisLen == 16

AxisIdx == 0..(AxisLen - 1)

\* a call about to be made, with its arguments
PairCall(x, y) == [fn |-> "decodeDTC", b1 |-> x, b2 |-> y, done |-> FALSE, ret |-> ""]

FrameCall(f) == [fn |-> "processDTCResponse", frame |-> f, done |-> FALSE, ret |-> <<>>]

\* the select of getMapValue about to decode the frame it has read
MapValueCall(f) ==
    [fn |-> "getMapValue", frame |-> f, done |-> FALSE, ret |-> [err |-> "none", val |-> 0]]

\* bytes at offsets 2, 3 and 4 of a frame getMapValue reads
MapBytes == {0, 4, 210, 255}

MapsCall(b) ==
    [fn |-> "getEngineMaps", bus |-> b, pc |-> "make", i |-> 0, done |-> FALSE,
     err |-> FALSE, maps |-> Nil, ok |-> {}]

InitC ==
    /\ InitBus /\ InitBc /\ InitWalk /\ InitTick /\ InitLife /\ InitCap /\ InitIng
    /\ \/ \E x \in Bytes, y \in Bytes : call = PairCall(x, y)
       \/ \E i \in {RespId, NoiseId}, n \in LenBytes, a \in AckBytes, p \in [1..6 -> PairBytes] :
             call = FrameCall([id |-> i, data |-> <<n, a>> \o p])
       \/ \E b \in BOOLEAN : call = MapsCall(b)
       \/ \E i \in {RespId, NoiseId}, n \in {4, 5, 8}, a \in {AckInfo, AckDTC},
             p \in [1..3 -> MapBytes] :
             call = MapValueCall([id |-> i, data |-> <<n, a>> \o p \o <<0, 0, 0>>])

CDecodeDTC ==
    /\ call.fn = "decodeDTC"
    /\ ~call.done
    /\ call' = [call EXCEPT !.done = TRUE, !.ret = decodeDTC(call.b1, call.b2)]

CProcessDTCResponse ==
    /\ call.fn = "processDTCResponse"
    /\ ~call.done
    /\ call' = [call EXCEPT !.done = TRUE, !.ret = processDTCResponse(call.frame)]

\* &MapData{Values: make([][]float64, 16), XAxis: make(..), YAxis: make(..)}
MakeMapData ==
    [Values |-> [i \in Idx |-> [j \in Idx |-> 0]],
     XAxis |-> [i \in AxisIdx |-> 0],
     YAxis |-> [i \in AxisIdx |-> 0]]

\* if bus == nil return nil, error; else the two MapData are allocated
CMapsMake ==
    /\ call.fn = "getEngineMaps"
    /\ call.pc = "make"
    /\ call' = IF call.bus
               THEN [call EXCEPT !.pc = "axes",
                                 !.maps = [Fuel |-> MakeMapData, Timing |-> MakeMapData]]
               ELSE [call EXCEPT !.pc = "done", !.done = TRUE, !.err = TRUE]

\* one turn of  for i := 0; i < 16; i++  over the four axes
CMapsAxis ==
    /\ call.fn = "getEngineMaps"
    /\ call.pc = "axes"
    /\ call' = IF call.i < AxisLen
               THEN [call EXCEPT !.i = @ + 1,
                                 !.maps.Fuel.XAxis[call.i] = AxisX(call.i),
                                 !.maps.Fuel.YAxis[call.i] = AxisY(call.i),
                                 !.maps.Timing.XAxis[call.i] = AxisX(call.i),
                                 !.maps.Timing.YAxis[call.i] = AxisY(call.i)]
               ELSE [call EXCEPT !.pc = "cells", !.i = Len(InfoSteps) + 1]

\* what a getMapValue call can return: an error of Publish or the timeout,
\* or what the frame it read decodes to
MapResults(st) ==
    {[err |-> "timeout", val |-> 0]}
        \cup {mapValueOf(f) :
                  f \in EcuReplies([tag |-> NoTag, id |-> ReqId, data |-> RequestData(st)])
                            \cup {NoiseFrame}}

\* one getMapValue call of the cell loops, and the return after the last
CMapsCell ==
    /\ call.fn = "getEngineMaps"
    /\ call.pc = "cells"
    /\ IF call.i <= Len(Steps)
       THEN \E res \in MapResults(Steps[call.i]) :
               call' = [Store(call, Steps[call.i], res) EXCEPT
                           !.i = @ + 1,
                           !.ok = IF res.err = "none" THEN @ \cup {call.i} ELSE @]
       ELSE call' = [call EXCEPT !.pc = "done", !.done = TRUE]

\* case frame := <-frameChan of getMapValue, up to its return
CGetMapValue ==
    /\ call.fn = "getMapValue"
    /\ ~call.done
    /\ call' = [call EXCEPT !.done = TRUE, !.ret = mapValueOf(call.frame)]

NextC ==
    \/ CDecodeDTC /\ UNCHANGED <<busVars, bcVars, walkVars, tickVars, lifeVars, capVars, ingVars>>
    \/ CProcessDTCResponse /\ UNCHANGED <<busVars, bcVars, walkVars, tickVars, lifeVars, capVars, ingVars>>
    \/ CMapsMake /\ UNCHANGED <<busVars, bcVars, walkVars, tickVars, lifeVars, capVars, ingVars>>
    \/ CMapsAxis /\ UNCHANGED <<busVars, bcVars, walkVars, tickVars, lifeVars, capVars, ingVars>>
    \/ CMapsCell /\ UNCHANGED <<busVars, bcVars, walkVars, tickVars, lifeVars, capVars, ingVars>>
    \/ CGetMapValue /\ UNCHANGED <<busVars, bcVars, walkVars, tickVars, lifeVars, capVars, ingVars>>

SpecC == InitC /\ [][NextC]_vars

(***************************************************************************)
(* SpecL: the session from the start of the goroutines to the exit of the  *)
(* process.  The initial state draws whether the bus was there at startup; *)
(* the telemetry and refresh goroutines run as in SpecX, the telemetry     *)
(* goroutine with the scalars it reads and the snapshot it hands over; the *)
(* shutdown goroutine runs as in SpecB, with the canBus.Disconnect() that  *)
(* follows its sweep.  No websocket client connects.  The frames that     *)
(* arrive are other traffic: an exchange ends when its goroutine reads a   *)
(* frame or when its timer fires; what the goroutines make of the ECU's    *)
(* replies is in SpecX and SpecW.  Nothing runs once main has returned.    *)
(***************************************************************************)
\* a nil pointer: main never assigned the variable
NilPtr == [inst |-> Nil, synced |-> TRUE]

InitL ==
    /\ InitBus /\ InitBc /\ InitWalk /\ InitCall /\ InitCap /\ InitIng
    /\ telemetry = NewTelemetry
    /\ tk = [sub |-> "idle", log |-> <<>>, read |-> <<>>]
    /\ sent = NoSnapshot
    /\ \/ canBus = BusUp /\ ecuInfo = [inst |-> 0, synced |-> TRUE]
                          /\ engineMaps = [inst |-> 0, synced |-> TRUE]
       \/ canBus = NoBus /\ ecuInfo = NilPtr /\ engineMaps = NilPtr

\* bus.Publish on a bus that has been disconnected returns an error
Connected == canBus.st = "up"

\* the ticker of the telemetry goroutine fires; the three RunOBDCommand calls
\* answer or fail with the device
LTick ==
    /\ Alive
    /\ BeginTick(MaxTicks)
    /\ \E ok \in BOOLEAN :
          telemetry' = IF ok
                       THEN [NewTelemetry EXCEPT !.RPM = tele.tick + 1, !.Speed = tele.tick + 1,
                                                 !.Temp = tele.tick + 1]
                       ELSE NewTelemetry
    /\ UNCHANGED <<ecuInfo, engineMaps, tk, sent, canBus>>

\* canBus == nil and frameChan == nil: the trouble code exchange and the
\* drain are skipped
LSkipBus ==
    /\ Alive
    /\ canBus.st = "nil"
    /\ tele.pc = "dtcsend"
    /\ tele' = [tele EXCEPT !.pc = "bcast"]
    /\ UNCHANGED <<frameChan, ecuPending, inbound, ex, rf, tickVars, canBus>>

\* if canBus != nil { sendDTCRequest(canBus) ... }
LDTCSend ==
    /\ Alive
    /\ canBus.st # "nil"
    /\ TeleDTCSend
    /\ ~Connected => tele'.pc = "drain"
    /\ UNCHANGED <<tickVars, canBus>>

LDTCRecv == Alive /\ TeleDTCRecv /\ UNCHANGED <<tickVars, canBus>>

LDTCTimeout == Alive /\ TeleDTCTimeout /\ UNCHANGED <<tickVars, canBus>>

LDrain == Alive /\ TeleDrain /\ UNCHANGED <<tickVars, canBus>>

LDrainDone == Alive /\ TeleDrainDone /\ UNCHANGED <<tickVars, canBus>>

\* broadcastTelemetry(telemetry), with the ECUInfo and EngineMaps pointers
\* the body has copied from main's variables
LBroadcast ==
    /\ Alive
    /\ TeleBroadcast
    /\ sent' = [n |-> sent.n + 1, RPM |-> telemetry.RPM, Speed |-> telemetry.Speed,
                Temp |-> telemetry.Temp, DTCs |-> tele.dtcs, ECUInfo |-> ecuInfo.inst,
                EngineMaps |-> engineMaps.inst, CANFrames |-> tele.canFrames]
    /\ telemetry' = NewTelemetry
    /\ UNCHANGED <<ecuInfo, engineMaps, tk, canBus>>

\* a refresh goroutine that main starts whether or not there is a bus
LRfTickNoBus ==
    /\ Alive
    /\ RfTick
    /\ UNCHANGED <<tickVars, canBus>>

\* the refresh goroutine exists only inside  if canBus != nil
LRfTick ==
    /\ Alive
    /\ canBus.st # "nil"
    /\ RfTick
    /\ UNCHANGED <<tickVars, canBus>>

LRfSend ==
    /\ Alive
    /\ RfSend
    /\ ~Connected => rf'.pc # "wait"
    /\ UNCHANGED <<tickVars, canBus>>

LRfRecv == Alive /\ RfRecv /\ UNCHANGED <<tickVars, canBus>>

LRfTimeout == Alive /\ RfTimeout /\ UNCHANGED <<tickVars, canBus>>

\* frames reach the handler while the bus is connected
LUnsolicited == Alive /\ Connected /\ Unsolicited /\ UNCHANGED <<tickVars, canBus>>

\* go func() { defer canBus.Disconnect(); log.Printf(..) }()
LEarlyDisconnect ==
    /\ Alive
    /\ canBus.early
    /\ canBus' = [st |-> "down", early |-> FALSE]
    /\ UNCHANGED <<busVars, tickVars>>

\* clientsMux.Unlock(); if canBus != nil { canBus.Disconnect() }; close(done)
LSdUnlock ==
    /\ SdUnlock
    /\ canBus' = IF canBus.st = "nil" THEN canBus ELSE [canBus EXCEPT !.st = "down"]
    /\ UNCHANGED <<busVars, tickVars>>

NextL ==
    \/ LTick /\ UNCHANGED <<bcVars, walkVars, callVars, capVars, ingVars>>
    \/ LSkipBus /\ UNCHANGED <<bcVars, walkVars, callVars, capVars, ingVars>>
    \/ LDTCSend /\ UNCHANGED <<bcVars, walkVars, callVars, capVars, ingVars>>
    \/ LDTCRecv /\ UNCHANGED <<bcVars, walkVars, callVars, capVars, ingVars>>
    \/ LDTCTimeout /\ UNCHANGED <<bcVars, walkVars, callVars, capVars, ingVars>>
    \/ LDrain /\ UNCHANGED <<bcVars, walkVars, callVars, capVars, ingVars>>
    \/ LDrainDone /\ UNCHANGED <<bcVars, walkVars, callVars, capVars, ingVars>>
    \/ LBroadcast /\ UNCHANGED <<bcVars, walkVars, callVars, capVars, ingVars>>
    \/ LRfTick /\ UNCHANGED <<bcVars, walkVars, callVars, capVars, ingVars>>
    \/ LRfSend /\ UNCHANGED <<bcVars, walkVars, callVars, capVars, ingVars>>
    \/ LRfRecv /\ UNCHANGED <<bcVars, walkVars, callVars, capVars, ingVars>>
    \/ LRfTimeout /\ UNCHANGED <<bcVars, walkVars, callVars, capVars, ingVars>>
    \/ LUnsolicited /\ UNCHANGED <<bcVars, walkVars, callVars, capVars, ingVars>>
    \/ LEarlyDisconnect /\ UNCHANGED <<bcVars, walkVars, callVars, capVars, ingVars>>
    \/ SdSignal /\ UNCHANGED <<busVars, walkVars, tickVars, auxVars>>
    \/ SdLock /\ UNCHANGED <<busVars, walkVars, tickVars, auxVars>>
    \/ LSdUnlock /\ UNCHANGED <<walkVars, callVars, capVars, ingVars>>
    \/ SdExit /\ UNCHANGED <<busVars, walkVars, tickVars, auxVars>>

SpecL == InitL /\ [][NextL]_vars

(***************************************************************************)
(* SpecR: a Recorder of internal/capture under any calls of Start, Stop,   *)
(* Record and RegisterHandler.  Every method runs under the recorder's     *)
(* mutex, so a call is one step.  session.Save and a handler's HandleFrame *)
(* succeed or fail as the file system and the handler decide.              *)
(***************************************************************************)
FrameTypes == {"CAN", "OBD2"}

Called(r, op, err) == [r EXCEPT !.calls = Append(@, [op |-> op, err |-> err])]

\* func (r *Recorder) Start() error
RStart ==
    /\ Len(rec.calls) < MaxCalls
    /\ rec' = IF rec.running
              THEN Called(rec, "Start", TRUE)
              ELSE Called([rec EXCEPT !.running = TRUE], "Start", FALSE)

\* a Stop that leaves the recorder running when the session cannot be saved
RStopUnlessSaveFails(saveErr) ==
    /\ Len(rec.calls) < MaxCalls
    /\ rec' = IF ~rec.running
              THEN Called(rec, "Stop", TRUE)
              ELSE Called([rec EXCEPT !.running = saveErr], "Stop", saveErr)

\* func (r *Recorder) Stop() error: running = false; return r.session.Save()
RStop(saveErr) ==
    /\ Len(rec.calls) < MaxCalls
    /\ rec' = IF ~rec.running
              THEN Called(rec, "Stop", TRUE)
              ELSE Called([rec EXCEPT !.running = FALSE], "Stop", saveErr)

\* the Frame handed to Record by the call about to be made: the caller stamps
\* it with the time, which is the number of the call
FrameNow(type) == [Type |-> type, Timestamp |-> Len(rec.calls) + 1]

\* func (s *Session) AddFrame(frame Frame)
AddFrame(r, frame) == [r EXCEPT !.frames = Append(@, frame)]

\* a Record that adds the frame before it asks the handler
RRecordAddsFirst(type, handlerErr) ==
    /\ Len(rec.calls) < MaxCalls
    /\ rec' = IF ~rec.running
              THEN Called(rec, "Record", TRUE)
              ELSE IF type \in rec.handlers /\ handlerErr
              THEN Called(AddFrame(rec, FrameNow(type)), "Record", TRUE)
              ELSE Called(AddFrame(rec, FrameNow(type)), "Record", FALSE)

\* func (r *Recorder) Record(frame Frame) error
RRecord(type, handlerErr) ==
    /\ Len(rec.calls) < MaxCalls
    /\ rec' = IF ~rec.running
              THEN Called(rec, "Record", TRUE)
              ELSE IF type \in rec.handlers /\ handlerErr
              THEN Called(rec, "Record", TRUE)
              ELSE Called(AddFrame(rec, FrameNow(type)), "Record", FALSE)

\* func (r *Recorder) RegisterHandler(handler FrameHandler)
RRegisterHandler(type) ==
    /\ Len(rec.calls) < MaxCalls
    /\ rec' = Called([rec EXCEPT !.handlers = @ \cup {type}], "RegisterHandler", FALSE)

\* func (r *Recorder) IsRunning() bool
IsRunning == rec.running

NextR ==
    \/ RStart /\ UNCHANGED <<busVars, bcVars, walkVars, tickVars, callVars, lifeVars, cap, mgr, ingVars>>
    \/ (\E e \in BOOLEAN : RStop(e))
          /\ UNCHANGED <<busVars, bcVars, walkVars, tickVars, callVars, lifeVars, cap, mgr, ingVars>>
    \/ (\E t \in FrameTypes, e \in BOOLEAN : RRecord(t, e))
          /\ UNCHANGED <<busVars, bcVars, walkVars, tickVars, callVars, lifeVars, cap, mgr, ingVars>>
    \/ (\E t \in FrameTypes : RRegisterHandler(t))
          /\ UNCHANGED <<busVars, bcVars, walkVars, tickVars, callVars, lifeVars, cap, mgr, ingVars>>

SpecR == Init /\ [][NextR]_vars

(***************************************************************************)
(* SpecF: a capture session of package capture written to its file and     *)
(* loaded again.                                                           *)
(*   cap.pc      "none", "open" after NewSession, "closed" after Close,    *)
(*               "loaded" after LoadSession                                *)
(*   cap.s       the Session in memory                                     *)
(*   cap.file    the file: the JSON values written to it, in order         *)
(*   cap.now     the clock                                                 *)
(*   cap.loaded  the Session LoadSession returned                          *)
(* A JSON value is a record of the members the struct tags name; a []byte  *)
(* member is the base64 text encoding/json writes for it, a text being the *)
(* sequence of its characters' values 0..63 with Pad for "=".  A nil slice *)
(* is written as null.  Only calls that return no error are taken.         *)
(***************************************************************************)
Pad == 64

RECURSIVE B64(_)
\* base64.StdEncoding of a []byte
B64(b) ==
    IF Len(b) = 0 THEN <<>>
    ELSE IF Len(b) = 1 THEN <<b[1] \div 4, (b[1] % 4) * 16, Pad, Pad>>
    ELSE IF Len(b) = 2
    THEN <<b[1] \div 4, (b[1] % 4) * 16 + b[2] \div 16, (b[2] % 16) * 4, Pad>>
    ELSE <<b[1] \div 4, (b[1] % 4) * 16 + b[2] \div 16,
           (b[2] % 16) * 4 + b[3] \div 64, b[3] % 64>> \o B64(SubSeq(b, 4, Len(b)))

RECURSIVE UnB64(_)
\* the []byte a base64 text decodes to
UnB64(t) ==
    IF Len(t) < 4 THEN <<>>
    ELSE <<t[1] * 4 + t[2] \div 16>>
         \o (IF t[3] = Pad THEN <<>>
             ELSE <<(t[2] % 16) * 16 + t[3] \div 4>>
                  \o (IF t[4] = Pad THEN <<>> ELSE <<(t[3] % 4) * 64 + t[4]>>))
         \o UnB64(SubSeq(t, 5, Len(t)))

\* json.Marshal of a CANFrame
EncodeFrame(f) ==
    [timestamp |-> f.Timestamp, id |-> f.ID, data |-> B64(f.Data), type |-> f.Type]

\* json.Unmarshal into a CANFrame
DecodeFrame(d) ==
    [Timestamp |-> d.timestamp, ID |-> d.id, Data |-> UnB64(d.data), Type |-> d.type]

\* encoder.Encode(session): Frames is nil until the first append
EncodeSession(x) ==
    [start_time |-> x.StartTime, end_time |-> x.EndTime, vehicle_info |-> x.VehicleInfo,
     frames |-> [null |-> x.Frames = <<>>,
                 items |-> [k \in 1..Len(x.Frames) |-> EncodeFrame(x.Frames[k])]]]

\* json.NewDecoder(file).Decode(&session): the next JSON value of the stream
DecodeNext(file) == file[1]

\* the Session a JSON value decodes to
DecodeSession(d) ==
    [StartTime |-> d.start_time, EndTime |-> d.end_time, VehicleInfo |-> d.vehicle_info,
     Frames |-> IF d.frames.null
                THEN <<>>
                ELSE [k \in 1..Len(d.frames.items) |-> DecodeFrame(d.frames.items[k])]]

\* the arguments of CaptureFrame: id, data, frameType
CaptureArgs ==
    {[id |-> RespId, type |-> "OBD2"], [id |-> NoiseId, type |-> "CAN"]}

CaptureData == {<<>>, <<4, 67>>, <<84, 69, 83, 84>>, <<255, 1, 35>>}

\* the clock shows the seconds since 1970 and is past zero; Unix() and
\* UnixNano() are both read off cap.now
Epoch == 1

\* func NewSession(vehicleInfo string) (*Session, error)
FNewSession ==
    /\ cap.pc = "none"
    /\ \E v \in {"", "Hyundai iLoad 2.5 CRDi"} :
          LET x == [StartTime |-> Epoch, EndTime |-> 0, VehicleInfo |-> v, Frames |-> <<>>]
          IN  cap' = [pc |-> "open", s |-> x, file |-> <<EncodeSession(x)>>, now |-> Epoch]

\* func (s *Session) CaptureFrame(id uint32, data []byte, frameType string) error
FCaptureFrame ==
    /\ cap.pc = "open"
    /\ Len(cap.s.Frames) < MaxCalls
    /\ \E a \in CaptureArgs, d \in CaptureData :
          LET frame == [Timestamp |-> cap.now + 1, ID |-> a.id, Data |-> d, Type |-> a.type]
          IN  cap' = [cap EXCEPT !.now = @ + 1,
                                 !.file = Append(@, EncodeFrame(frame)),
                                 !.s.Frames = Append(@, frame)]

\* func (s *Session) Close() error
FClose ==
    /\ cap.pc = "open"
    /\ \E dt \in {0, 1} :
          LET x == [cap.s EXCEPT !.EndTime = cap.now + dt]
          IN  cap' = [cap EXCEPT !.pc = "closed", !.now = @ + dt, !.s = x,
                                 !.file = Append(@, EncodeSession(x))]

\* func LoadSession(filename string) (*Session, error)
FLoadSession ==
    /\ cap.pc = "closed"
    /\ cap' = [pc |-> "loaded", s |-> cap.s, file |-> cap.file, now |-> cap.now,
               loaded |-> DecodeSession(DecodeNext(cap.file))]

NextF ==
    \/ FNewSession /\ UNCHANGED <<busVars, bcVars, walkVars, tickVars, callVars, lifeVars, rec, mgr, ingVars>>
    \/ FCaptureFrame /\ UNCHANGED <<busVars, bcVars, walkVars, tickVars, callVars, lifeVars, rec, mgr, ingVars>>
    \/ FClose /\ UNCHANGED <<busVars, bcVars, walkVars, tickVars, callVars, lifeVars, rec, mgr, ingVars>>
    \/ FLoadSession /\ UNCHANGED <<busVars, bcVars, walkVars, tickVars, callVars, lifeVars, rec, mgr, ingVars>>

SpecF == Init /\ [][NextF]_vars

(***************************************************************************)
(* SpecV: the vehicle Manager of internal/vehicle under any calls of       *)
(* RegisterVehicle, GetVehicle and UpdateVehicleState.  Every method runs  *)
(* under the manager's mutex, so a call is one step.  A State is           *)
(* represented by its fields EngineRunning and Speed, a Vehicle by its     *)
(* fields VIN, Make, Model, Year, State and LastUpdated.  In the source    *)
(* RegisterVehicle's parameter make hides the builtin make that the body   *)
(* calls for Capabilities.SupportedPIDs; the model takes the method as it  *)
(* reads, with the map made.                                               *)
(***************************************************************************)
VINs == {"1HGCM82633A123456", "KMFWBX7KLFU123456"}

Makes == {"Honda", "Hyundai"}

Models == {"Accord", "iLoad"}

Years == {2015, 2023}

\* the zero State, and the State the repository's test stores
States == {[EngineRunning |-> FALSE, Speed |-> 0], [EngineRunning |-> TRUE, Speed |-> 60]}

\* m.vehicles[vin] of a VIN that is not a key of the map
NoVehicle == [exists |-> FALSE]

\* _, exists := m.vehicles[vin]
Exists(m, vin) == vin \in DOMAIN m.vehicles /\ m.vehicles[vin].exists

\* the map m.vehicles after m.vehicles[vin] = v
Put(m, vin, v) == [x \in DOMAIN m.vehicles \cup {vin} |-> IF x = vin THEN v ELSE m.vehicles[x]]

\* a RegisterVehicle that stores the new vehicle whether or not the VIN is known
RegisterVehicleOverwrite(vin, make, model, year) ==
    LET v == [exists |-> TRUE, VIN |-> vin, Make |-> make, Model |-> model, Year |-> year,
              State |-> [EngineRunning |-> FALSE, Speed |-> 0], LastUpdated |-> mgr.calls + 1]
    IN  mgr' = [vehicles |-> Put(mgr, vin, v), calls |-> mgr.calls + 1,
                last |-> [op |-> "RegisterVehicle", vin |-> vin, err |-> FALSE, ret |-> v]]

\* func (m *Manager) RegisterVehicle(vin, make, model string, year int) (*Vehicle, error)
RegisterVehicle(vin, make, model, year) ==
    LET v == [exists |-> TRUE, VIN |-> vin, Make |-> make, Model |-> model, Year |-> year,
              State |-> [EngineRunning |-> FALSE, Speed |-> 0], LastUpdated |-> mgr.calls + 1]
    IN  IF Exists(mgr, vin)
        THEN mgr' = [mgr EXCEPT !.calls = @ + 1,
                            !.last = [op |-> "RegisterVehicle", vin |-> vin,
                                          err |-> TRUE, ret |-> NoVehicle]]
        ELSE mgr' = [vehicles |-> Put(mgr, vin, v), calls |-> mgr.calls + 1,
                     last |-> [op |-> "RegisterVehicle", vin |-> vin, err |-> FALSE, ret |-> v]]

\* func (m *Manager) GetVehicle(vin string) (*Vehicle, error)
GetVehicle(vin) ==
    mgr' = [mgr EXCEPT !.calls = @ + 1,
                       !.last = IF Exists(mgr, vin)
                                THEN [op |-> "GetVehicle", vin |-> vin, err |-> FALSE,
                                      ret |-> mgr.vehicles[vin]]
                                ELSE [op |-> "GetVehicle", vin |-> vin, err |-> TRUE,
                                      ret |-> NoVehicle]]

\* func (m *Manager) UpdateVehicleState(vin string, state State) error
UpdateVehicleState(vin, state) ==
    IF Exists(mgr, vin)
    THEN mgr' = [vehicles |-> [mgr.vehicles EXCEPT ![vin].State = state,
                                                   ![vin].LastUpdated = mgr.calls + 1],
                 calls |-> mgr.calls + 1,
                 last |-> [op |-> "UpdateVehicleState", vin |-> vin, err |-> FALSE,
                           ret |-> NoVehicle]]
    ELSE mgr' = [mgr EXCEPT !.calls = @ + 1,
                            !.last = [op |-> "UpdateVehicleState", vin |-> vin,
                                      err |-> TRUE, ret |-> NoVehicle]]

VRegister ==
    /\ mgr.calls < MaxCalls
    /\ \E vin \in VINs, make \in Makes, model \in Models, year \in Years :
          RegisterVehicle(vin, make, model, year)

VGet ==
    /\ mgr.calls < MaxCalls
    /\ \E vin \in VINs : GetVehicle(vin)

VUpdate ==
    /\ mgr.calls < MaxCalls
    /\ \E vin \in VINs, state \in States : UpdateVehicleState(vin, state)

NextV ==
    \/ VRegister /\ UNCHANGED <<busVars, bcVars, walkVars, tickVars, callVars, lifeVars, rec, cap, ingVars>>
    \/ VGet /\ UNCHANGED <<busVars, bcVars, walkVars, tickVars, callVars, lifeVars, rec, cap, ingVars>>
    \/ VUpdate /\ UNCHANGED <<busVars, bcVars, walkVars, tickVars, callVars, lifeVars, rec, cap, ingVars>>

SpecV == Init /\ [][NextV]_vars

(***************************************************************************)
(* SpecU: the telemetry goroutine and the CAN handler, with every frame    *)
(* the bus hands to Handle numbered in the order of the calls.  The bus    *)
(* calls Handle for one frame at a time; Handle builds the CANFrame and    *)
(* then sends it on frameChan, a send that completes when the buffer has   *)
(* room.  The number travels with the frame; the program cannot see it.    *)
(***************************************************************************)
Numbered(f, n) == [id |-> f.id, data |-> f.data, re |-> f.re, seq |-> n]

\* func (h *CANHandler) Handle(frame can.Frame), up to the send: other traffic
UArriveNoise ==
    /\ ing.held = <<>>
    /\ inbound < MaxArrivals
    /\ ing' = [ing EXCEPT !.held = <<Numbered(NoiseFrame, inbound + 1)>>]
    /\ inbound' = inbound + 1
    /\ UNCHANGED <<frameChan, ecuPending, ex, tele, rf>>

\* Handle up to the send: the ECU's answer to the request it is working on
UArriveReply ==
    /\ ing.held = <<>>
    /\ inbound < MaxArrivals
    /\ \E req \in ecuPending :
          /\ ing' = [ing EXCEPT !.held = <<Numbered(EcuReply(req), inbound + 1)>>]
          /\ ecuPending' = ecuPending \ {req}
    /\ inbound' = inbound + 1
    /\ UNCHANGED <<frameChan, ex, tele, rf>>

\* h.frameChan <- CANFrame{...}
UEnqueue ==
    /\ ing.held # <<>>
    /\ Handle(Head(ing.held))
    /\ ing' = [ing EXCEPT !.held = <<>>]
    /\ UNCHANGED <<ecuPending, inbound, ex, tele, rf>>

\* the frame at the head of frameChan is read by the wait or by the drain
Taken(by) ==
    ing' = [ing EXCEPT !.taken = Append(@, [seq |-> Head(frameChan).seq,
                                             frame |-> CANFrame(Head(frameChan)),
                                             by |-> by, tick |-> tele.tick])]

UTick == BeginTick(MaxRounds) /\ UNCHANGED ing

USend == TeleDTCSend /\ UNCHANGED ing

URecv == TeleDTCRecv /\ Taken("exchange")

UTimeout == TeleDTCTimeout /\ UNCHANGED ing

UDrain == TeleDrain /\ Taken("drain")

UDrainDone == TeleDrainDone /\ UNCHANGED ing

UBroadcast == TeleBroadcast /\ UNCHANGED ing

\* a step of the telemetry goroutine: the ticker delivers, or the loop body
\* goes on
UStep ==
    \/ UTick /\ UNCHANGED <<bcVars, walkVars, tickVars, callVars, lifeVars, capVars>>
    \/ USend /\ UNCHANGED <<bcVars, walkVars, tickVars, callVars, lifeVars, capVars>>
    \/ URecv /\ UNCHANGED <<bcVars, walkVars, tickVars, callVars, lifeVars, capVars>>
    \/ UTimeout /\ UNCHANGED <<bcVars, walkVars, tickVars, callVars, lifeVars, capVars>>
    \/ UDrain /\ UNCHANGED <<bcVars, walkVars, tickVars, callVars, lifeVars, capVars>>
    \/ UDrainDone /\ UNCHANGED <<bcVars, walkVars, tickVars, callVars, lifeVars, capVars>>
    \/ UBroadcast /\ UNCHANGED <<bcVars, walkVars, tickVars, callVars, lifeVars, capVars>>

\* the send of the handler completes
USendStep == UEnqueue /\ UNCHANGED <<bcVars, walkVars, tickVars, callVars, lifeVars, capVars>>

NextU ==
    \/ UTick /\ UNCHANGED <<bcVars, walkVars, tickVars, callVars, lifeVars, capVars>>
    \/ USend /\ UNCHANGED <<bcVars, walkVars, tickVars, callVars, lifeVars, capVars>>
    \/ URecv /\ UNCHANGED <<bcVars, walkVars, tickVars, callVars, lifeVars, capVars>>
    \/ UTimeout /\ UNCHANGED <<bcVars, walkVars, tickVars, callVars, lifeVars, capVars>>
    \/ UDrain /\ UNCHANGED <<bcVars, walkVars, tickVars, callVars, lifeVars, capVars>>
    \/ UDrainDone /\ UNCHANGED <<bcVars, walkVars, tickVars, callVars, lifeVars, capVars>>
    \/ UBroadcast /\ UNCHANGED <<bcVars, walkVars, tickVars, callVars, lifeVars, capVars>>
    \/ UArriveNoise /\ UNCHANGED <<bcVars, walkVars, tickVars, callVars, lifeVars, capVars>>
    \/ UArriveReply /\ UNCHANGED <<bcVars, walkVars, tickVars, callVars, lifeVars, capVars>>
    \/ UEnqueue /\ UNCHANGED <<bcVars, walkVars, tickVars, callVars, lifeVars, capVars>>

\* the telemetry goroutine and the handler's goroutine are scheduled, the
\* ticker and the 100 ms timer fire
SpecU == Init /\ [][NextU]_vars /\ WF_vars(UStep) /\ WF_vars(USendStep)

(***************************************************************************)
(* Steps on frameChan as an observer sees them.                            *)
(***************************************************************************)
\* the step takes the oldest frame off the channel
Pops == frameChan # <<>> /\ frameChan' = Tail(frameChan)

\* the step is a read of the channel by task t (only RfRecv changes rf)
ReadBy(t) == Pops /\ (IF t = "refresh" THEN rf' # rf ELSE rf' = rf)

\* the wait of task t's exchange accepts frame f as its response
Matches(t, f) ==
    IF t = "tele" THEN IsDTCResponse(f) ELSE StepResult(Steps[rf.step], f).err = "none"

\* how the step that ends the exchange of task t ends it
OutcomeOf(t) ==
    IF ~Pops
    THEN IF t = "tele" /\ ex[t].got THEN "response" ELSE "timeout"
    ELSE IF Matches(t, Head(frameChan)) THEN "response" ELSE "invalid"

(***************************************************************************)
(* Claims on the exchange (SpecX).                                         *)
(***************************************************************************)
\* C1: at every moment at most one exchange is in flight against the CAN
\* transport, whatever the interleaving of the telemetry task and the
\* refresh task.
C1_OneExchangeInFlight == Cardinality({t \in Tasks : InFlight(t)}) <= 1

\* C2: while two tasks have an exchange open on the same frame channel, the
\* frame that answers one task's request is never read by the wait of the
\* other task.
C2_NoCrossTalk ==
    [][\A t \in Tasks : \A u \in Tasks \ {t} :
          (InFlight(t) /\ InFlight(u) /\ ReadBy(t) /\ (t = "tele" => tele.pc = "dtcwait"))
              => Head(frameChan).re # ex[u].tag]_vars

\* C3: at any moment at most one of {exchange wait, drain} reads the channel:
\* the drain of a tick never takes the frame that answers the exchange in
\* flight in the refresh task.
C3_DrainSparesResponses ==
    [][(tele.pc = "drain" /\ ReadBy("tele") /\ InFlight("refresh"))
          => Head(frameChan).re # ex["refresh"].tag]_vars

\* C4: an exchange keeps reading the channel after a frame that does not
\* match: reading such a frame leaves the exchange waiting, so that a matching
\* frame arriving before the timeout is still returned.
C4_KeepsReading ==
    [][\A t \in Tasks :
          (InFlight(t) /\ ReadBy(t) /\ (t = "tele" => tele.pc = "dtcwait")
              /\ ~Matches(t, Head(frameChan)))
              => InFlight(t)']_vars

\* C5: every exchange ends in one of two ways: with a matching response, or
\* with the timeout.
C5_ResponseOrTimeout ==
    [][\A t \in Tasks :
          (InFlight(t) /\ ~InFlight(t)') => OutcomeOf(t) \in {"response", "timeout"}]_vars

\* C6: an exchange that waits for its response has written exactly one
\* request frame to the transport, from the send to the step that ends it with
\* a response or a timeout: never zero, never a second one.
C6_OneFramePerExchange ==
    \A t \in Tasks :
        /\ InFlight(t) => ex[t].wrote = 1
        /\ ~InFlight(t) => ex[t].wrote = 0

\* C6 witness: the telemetry exchange has read its response and still waits
\* for the timer, the refresh task is past its first exchanges and waits on a
\* map cell; each has one frame on the bus.
C6_Witness ==
    /\ InFlight("tele") /\ ex["tele"].got /\ ex["tele"].wrote = 1
    /\ InFlight("refresh") /\ rf.step > Len(InfoSteps) /\ ex["refresh"].wrote = 1

(***************************************************************************)
(* Claims on the subscriber registry (SpecB).                              *)
(***************************************************************************)
\* the tasks inside a section of code that runs between Lock and Unlock
InCS ==
    {<<"ws", c>> : c \in {d \in Conns : ws[d].pc \in {"adding", "deleting"}}}
        \cup (IF bc.pc \in {"iter", "write"} THEN {<<"bc", 0>>} ELSE {})
        \cup (IF sd.pc = "sweep" THEN {<<"sd", 0>>} ELSE {})

\* the publish of snapshot bc.n is traversing the registry
Publishing == bc.pc \in {"iter", "write"}

\* the number of the last snapshot whose write to c has returned, if every
\* publish since c was added has written to it
Expected(c) ==
    IF Publishing /\ (c \notin bc.seen \/ (bc.pc = "write" /\ bc.cur = c))
    THEN bc.n - 1
    ELSE bc.n

\* C7: a subscriber whose write fails is removed from the registry in the
\* publish of that write, so no second write to it is tried; and when a
\* publish is over, every subscriber still in the registry has been written
\* that snapshot, whatever failed before it in the loop: a subscriber present
\* from the start has all N snapshots.
C7_FailureIsolated ==
    /\ \A c \in Conns : ws[c].fails <= 1 /\ (ws[c].fails = 1 => c \notin clients)
    /\ (bc.pc = "idle" /\ bc.n > 0) =>
          \A c \in clients :
              /\ ws[c].since < bc.n => ws[c].got # <<>> /\ ws[c].got[Len(ws[c].got)] = bc.n
              /\ ws[c].since = 0 => Len(ws[c].got) = bc.n

\* C7 witness: all snapshots are published, the write to one subscriber has
\* failed and it is out of the registry, another one has received them all.
C7_Witness ==
    /\ bc.pc = "idle" /\ bc.n = MaxSnaps
    /\ \E c \in Conns : ws[c].fails = 1 /\ c \notin clients /\ ws[c].since = 0
    /\ \E c \in clients : ws[c].since = 0 /\ Len(ws[c].got) = MaxSnaps

\* C8: subscribe, unsubscribe, the publish traversal and the shutdown sweep
\* exclude each other on the registry: at most one task is between Lock and
\* Unlock, and it is the holder of the mutex.
C8_RegistryExclusive ==
    /\ Cardinality(InCS) <= 1
    /\ \A who \in InCS : clientsMux = who
    /\ InCS = {} => clientsMux = Free

\* C8 witness: a publish is writing to a subscriber while a handler waits to
\* add its connection and the shutdown goroutine waits to sweep.
C8_Witness ==
    /\ bc.pc = "write"
    /\ \E c \in Conns : ws[c].pc = "add"
    /\ sd.pc = "lock"

\* C9: while the write to one subscriber has not returned, the write to
\* every subscriber this publish has not reached yet can begin.
C9_SlowWriteDoesNotStall ==
    bc.pc = "write" => \A c \in clients \ bc.seen : ENABLED BcWriteBegin(c)

\* C10: every subscriber has received the snapshots published since it was
\* added, once each, in publish order and without a gap, up to the last one
\* written while it was in the registry.
C10_InOrderNoGap ==
    \A c \in Conns :
        /\ \A i \in 1..Len(ws[c].got) : ws[c].got[i] = ws[c].since + i
        /\ c \in clients => Len(ws[c].got) = Expected(c) - ws[c].since

\* C10 witness: a subscriber added after the first publish has received the
\* second snapshot only, one present from the start has received both in order.
C10_Witness ==
    /\ bc.pc = "idle"
    /\ \E c \in clients : ws[c].since = 1 /\ ws[c].got = <<2>>
    /\ \E c \in clients : ws[c].since = 0 /\ ws[c].got = <<1, 2>>

(***************************************************************************)
(* The refresh as an observer of the bus and of the result sees it.        *)
(***************************************************************************)
\* getECUInfo of the current cycle has returned
InfoDone == ~wk.crashed /\ rf.cycle >= 1 /\ (rf.pc = "idle" \/ rf.step > Len(InfoSteps))

\* getEngineMaps of the current cycle has returned
MapsDone == ~wk.crashed /\ rf.cycle >= 1 /\ rf.pc = "idle"

\* the getInfo requests of the current cycle, in order
InfoCalls == SelectSeq(wk.calls, LAMBDA c : c.data[1] = 2)

\* the getMapValue requests of the current cycle for one map, in order
MapCalls(pid) == SelectSeq(wk.calls, LAMBDA c : c.data[1] = 4 /\ c.data[3] = pid)

\* the steps of getEngineMaps
MapStepNos == (Len(InfoSteps) + 1)..Len(Steps)

\* what is left of the refresh in progress: two for a call not yet sent, one
\* for a call that waits, over the calls still to come
Remaining ==
    IF rf.pc = "idle"
    THEN 0
    ELSE 2 * (Len(Steps) - rf.step) + (IF rf.pc = "send" THEN 2 ELSE 1)

\* the frame is a mode 09 response long enough to carry a map value
ValidMapResponse(f) ==
    f # NoFrame /\ f.id = RespId /\ f.data[1] >= 5 /\ f.data[2] = AckInfo

(***************************************************************************)
(* Claims on the walker (SpecW).                                           *)
(***************************************************************************)
\* C17: one EcuInfo refresh issues exactly five exchanges, one each for VIN,
\* version/name, calibration id, protocol and hardware; all five use mode
\* 0x09 and the request id and differ pairwise in the PID, and every one of
\* these fields is filled from its own sub-query.
C17_FiveDistinctQueries ==
    InfoDone =>
        /\ Len(InfoCalls) = 5
        /\ \A i \in 1..Len(InfoCalls) :
              InfoCalls[i].id = ReqId /\ InfoCalls[i].data[2] = ModeInfo
        /\ \A i \in 1..Len(InfoCalls) : \A j \in 1..Len(InfoCalls) :
              i # j => InfoCalls[i].data[3] # InfoCalls[j].data[3]
        /\ {InfoSteps[i].field : i \in 1..Len(InfoSteps)}
              = {"VIN", "Version", "Calibration", "Protocol", "Hardware"}

\* C18: whatever subset of the five sub-queries times out or fails, the
\* refresh runs the remaining ones and returns an EcuInfo in which exactly
\* the fields whose sub-query succeeded are set and every other field is
\* unset.
C18_ExactlySucceededSet ==
    /\ ~wk.crashed
    /\ InfoDone =>
          /\ \A k \in 1..Len(InfoSteps) :
                (wk.info[InfoSteps[k].field] # <<>>) <=> (k \in wk.ok)
          /\ \A f \in InfoFields \ {InfoSteps[k].field : k \in 1..Len(InfoSteps)} :
                wk.info[f] = <<>>

IsPrefix(s, t) == Len(s) <= Len(t) /\ SubSeq(t, 1, Len(s)) = s

\* the statements of the loop body in the order of the source
TickOrder == <<"RPM", "Speed", "Temp", "DTCs", "ECUInfo", "EngineMaps", "CANFrames">>

RECURSIVE DecodeAll(_)
\* the trouble codes of a list of frames, frame by frame
DecodeAll(fs) ==
    IF fs = <<>> THEN <<>> ELSE processDTCResponse(Head(fs)) \o DecodeAll(Tail(fs))

\* C11: the EcuInfo and the EngineMaps of a snapshot are results of a
\* completed refresh: what the snapshot carries of an instance is the
\* instance as the refresh finished it, never one seen with part of its
\* fields not yet written.
C11_OnlyCompletedInstances ==
    sent.n > 0 => sent.ECUInfo.whole /\ sent.EngineMaps.whole

\* C12: within a tick the steps run in the order scalar queries, trouble
\* code exchange, backlog drain, read of the latest EcuInfo and EngineMap,
\* hand-off: the read of EcuInfo and EngineMap comes after the drain.
C12_ReadAfterDrain ==
    IsPrefix(tk.log, <<"RPM", "Speed", "Temp", "DTCs", "CANFrames", "ECUInfo", "EngineMaps">>)

\* C12, amended: within a tick the steps run in the order scalar queries
\* (RPM, speed, temperature), trouble code exchange, read of the latest
\* EcuInfo and EngineMap, backlog drain, hand-off: the read of EcuInfo and
\* EngineMap comes before the drain, and the snapshot is handed off when all
\* of them are done.
C12_ReadBeforeDrain ==
    /\ IsPrefix(tk.log, TickOrder)
    /\ tele.pc = "bcast" => tk.log = TickOrder

\* C12 witness: a tick is at its hand-off with a frame its drain took after
\* the two reads.
C12_Witness ==
    /\ tele.pc = "bcast"
    /\ tk.log = TickOrder
    /\ tele.canFrames # <<>>

\* C13: ticks do not overlap: a tick begins only when the snapshots of all
\* ticks before it have been handed off, and the scalar fields of the
\* snapshot under construction were read in its own tick or not at all.
C13_TicksDoNotOverlap ==
    /\ sent.n = tele.tick - (IF tele.pc = "idle" THEN 0 ELSE 1)
    /\ \A f \in {"RPM", "Speed", "Temp"} : telemetry[f] \in {0, tele.tick}
    /\ tele.pc = "idle" => telemetry = NewTelemetry /\ tk.log = <<>>

\* C13 witness: the second tick is at its hand-off after the first snapshot
\* was handed off; two of its scalars were read in it, one read failed.
C13_Witness ==
    /\ tele.tick = 2 /\ tele.pc = "bcast" /\ sent.n = 1
    /\ telemetry.RPM = 2 /\ telemetry.Speed = 0 /\ telemetry.Temp = 2

\* C14: the trouble codes of a tick are those decoded from the frames its
\* own exchange read: when the send fails, or the exchange times out without
\* having read a valid mode 03 response, the list is empty, whatever an
\* earlier snapshot carried.
C14_NoResponseNoCodes ==
    /\ tele.dtcs = DecodeAll(tk.read)
    /\ (\A i \in 1..Len(tk.read) : ~IsDTCResponse(tk.read[i])) => tele.dtcs = <<>>
    /\ "DTCs" \notin {tk.log[i] : i \in 1..Len(tk.log)} => tk.read = <<>>

\* C14 witness: the first snapshot carried a trouble code; the second tick,
\* whose exchange is over without a response, is at its hand-off with none.
C14_Witness ==
    /\ tele.tick = 2 /\ tele.pc = "bcast"
    /\ sent.n = 1 /\ sent.DTCs # <<>>
    /\ tele.dtcs = <<>>

\* C15: in every tick the drain of the backlog ends, so that the snapshot is
\* handed to the broadcaster, also while the bus keeps adding frames.
C15_DrainEnds == (tele.pc = "drain") ~> (tele.pc = "bcast")

\* C16: no failure of a sub-query stops the telemetry loop: whatever scalar
\* reads and sends have failed and whatever frames have been read, a tick in
\* progress has a next step, every tick begun before the current one has
\* handed off its snapshot, and once it has, the next tick can begin.
C16_FailuresDoNotStopTheLoop ==
    /\ tele.pc # "idle" => ENABLED TStep
    /\ (tele.pc = "idle" /\ tele.tick < MaxRounds)
          => ENABLED (TTick /\ UNCHANGED <<auxVars, bcVars, walkVars>>)
    /\ sent.n >= tele.tick - 1

\* C16 witness: the first tick has handed off its snapshot; in the second
\* one all three scalar reads have failed and the exchange has read a
\* negative response and timed out: it is at its hand-off.
C16_Witness ==
    /\ tele.tick = 2 /\ tele.pc = "bcast" /\ sent.n = 1
    /\ telemetry.RPM = 0 /\ telemetry.Speed = 0 /\ telemetry.Temp = 0
    /\ tk.read # <<>> /\ \A i \in 1..Len(tk.read) : ~IsDTCResponse(tk.read[i])
    /\ tele.dtcs = <<>>


(***************************************************************************)
(* The codec (SpecC).                                                      *)
(***************************************************************************)
Letters == <<"P", "C", "B", "U">>

\* decodeDTC has returned
PairDone == call.fn = "decodeDTC" /\ call.done

\* the four hex digits of a 14 bit code, read off the nibbles of the two bytes
Nibbles(b1, b2) ==
    HexChars[((b1 % 64) \div 16) + 1] \o HexChars[(b1 % 16) + 1]
        \o HexChars[(b2 \div 16) + 1] \o HexChars[(b2 % 16) + 1]

\* C21: decodeDTC(0, 0) is no code; for any other pair of bytes the result
\* is the letter P, C, B, U chosen by the two top bits of b1 followed by the
\* four upper-case, zero-padded hex digits of the remaining 14 bits, as in
\* P000C, C0001, B00FF and U0210
C21_DecodePair ==
    PairDone =>
        LET b1 == call.b1
            b2 == call.b2
        IN  /\ (b1 = 0 /\ b2 = 0) => call.ret = ""
            /\ ~(b1 = 0 /\ b2 = 0) =>
                  call.ret = Letters[(b1 \div 64) + 1] \o Nibbles(b1, b2)
            /\ (b1 = 0 /\ b2 = 12) => call.ret = "P000C"
            /\ (b1 = 64 /\ b2 = 1) => call.ret = "C0001"
            /\ (b1 = 128 /\ b2 = 255) => call.ret = "B00FF"
            /\ (b1 = 194 /\ b2 = 16) => call.ret = "U0210"

C21_Witness == PairDone /\ call.b1 = 194 /\ call.b2 = 16 /\ call.ret = "U0210"

\* processDTCResponse has returned
ProcDone == call.fn = "processDTCResponse" /\ call.done

\* the offsets of the pairs that lie within the n bytes the frame declares
\* (the bytes at offsets 1..n) and hold a byte other than zero
PairsWithin(f) ==
    SelectSeq(<<2, 4, 6>>,
              LAMBDA i : i + 1 <= D(f, 0) /\ ~(D(f, i) = 0 /\ D(f, i + 1) = 0))

\* C22: for an accepted mode 03 response the result is, in the order of the
\* payload, the code of each pair at offsets (2,3), (4,5), (6,7) that lies
\* within the declared length and is not all zero; 05 43 01 23 00 00 gives
\* P0123
C22_PairsInOrder ==
    (ProcDone /\ IsDTCResponse(call.frame)) =>
        LET f == call.frame
            offs == PairsWithin(f)
        IN  /\ call.ret = [k \in 1..Len(offs) |-> decodeDTC(D(f, offs[k]), D(f, offs[k] + 1))]
            /\ f.data = <<5, 67, 1, 35, 0, 0, 0, 0>> => call.ret = <<"P0123">>

C22_Witness ==
    /\ ProcDone
    /\ call.frame.id = RespId
    /\ call.frame.data = <<5, 67, 1, 35, 0, 0, 0, 0>>
    /\ call.ret = <<"P0123">>

\* C23: a payload whose length byte is below 2 or whose mode byte is not
\* 0x43 decodes to nothing, whatever the other bytes are
C23_RejectsShortOrOtherMode ==
    (ProcDone /\ (D(call.frame, 0) < 2 \/ D(call.frame, 1) # 67)) => call.ret = <<>>

C23_Witness ==
    /\ ProcDone
    /\ call.frame.id = RespId
    /\ D(call.frame, 0) = 4
    /\ D(call.frame, 1) = 127
    /\ D(call.frame, 2) = 1
    /\ D(call.frame, 3) = 35
    /\ call.ret = <<>>

\* getEngineMaps has returned maps
MapsReturned == call.fn = "getEngineMaps" /\ call.done /\ ~call.err

\* C24: in the two maps getEngineMaps returns, whatever its cells got,
\* xAxis[i] = i * 500 and yAxis[i] = i * 6.25 for i in 0..15; xAxis[3] is
\* 1500 and yAxis[3] is 18.75 (axes in hundredths on the y side)
C24_Axes ==
    MapsReturned =>
        \A m \in {"Fuel", "Timing"} :
            /\ DOMAIN call.maps[m].XAxis = 0..15
            /\ DOMAIN call.maps[m].YAxis = 0..15
            /\ \A i \in 0..15 :
                  /\ call.maps[m].XAxis[i] = i * 500
                  /\ 4 * call.maps[m].YAxis[i] = i * 2500
            /\ call.maps[m].XAxis[3] = 1500
            /\ call.maps[m].YAxis[3] = 1875

\* maps are returned though no cell got a value
C24_Witness ==
    /\ MapsReturned
    /\ call.ok = {}
    /\ call.maps.Timing.YAxis[3] = 1875


(***************************************************************************)
(* The session (SpecL, SpecB).                                             *)
(***************************************************************************)
\* the step starts a tick of the telemetry loop or a refresh
StartsWork == tele'.tick > tele.tick \/ rf'.cycle > rf.cycle

\* C25: once the shutdown signal has been given (stop is closed) no
\* telemetry tick and no refresh is started
C25_NoWorkAfterSignal == [][sd.pc # "wait" => ~StartsWork]_vars

\* the step is a canBus.Disconnect() on the connected bus
Releases == canBus.st = "up" /\ canBus'.st = "down"

\* C26: the bus is not disconnected while an exchange is in flight
C26_NoReleaseInFlight == [][Releases => \A t \in Tasks : ~InFlight(t)]_vars

\* the step adds a connection to the registry or writes a snapshot to one
AddsOrWrites ==
    \/ clients' \ clients # {}
    \/ \E c \in Conns : ws'[c].got # ws[c].got

\* C27: once the cleanup of the shutdown has completed (done is closed) the
\* registry is empty and every connection that was in it is closed, and
\* from then on no connection is added and no snapshot is written
C27_CleanupIsFinal ==
    /\ [](sd.pc = "done" => clients = {})
    /\ [][sd.pc = "done" => ~AddsOrWrites]_vars

\* steps of the telemetry loop in a session without a bus
NoBusStep == LSkipBus \/ LBroadcast

\* C28: in a session that started without a bus no request is published and
\* no exchange begins, no refresh runs, no frame arrives; the telemetry loop
\* goes on, hands over one snapshot per tick with the scalars it read, and
\* the snapshot has no trouble codes, no ECUInfo, no EngineMaps and no
\* frames; the process stays up until it is told to stop
C28_NoBusDegrades ==
    canBus.st = "nil" =>
        /\ ecuPending = {}
        /\ \A t \in Tasks : ex[t] = NoExchange
        /\ tele.pc \in {"idle", "dtcsend", "bcast"}
        /\ rf.pc = "idle" /\ rf.cycle = 0
        /\ frameChan = <<>> /\ inbound = 0
        /\ sent.n = IF tele.pc = "idle" THEN tele.tick ELSE tele.tick - 1
        /\ sent.n > 0 =>
              /\ sent.DTCs = <<>>
              /\ sent.CANFrames = <<>>
              /\ sent.ECUInfo = Nil
              /\ sent.EngineMaps = Nil
              /\ {sent.RPM, sent.Speed, sent.Temp} \subseteq {0, sent.n}
        /\ (Alive /\ tele.pc # "idle") => ENABLED NoBusStep
        /\ (Alive /\ tele.pc = "idle" /\ tele.tick < MaxTicks) => ENABLED LTick
        /\ sd.pc = "wait" => Alive

C28_Witness ==
    /\ canBus.st = "nil"
    /\ sent.n = 1
    /\ sent.RPM = 1
    /\ tele.pc = "idle"


(***************************************************************************)
(* The recorder (SpecR).                                                   *)
(***************************************************************************)
\* after the calls of log the last successful Start has no Stop after it
\* (a Stop that follows a successful Start with no Stop in between is a Stop
\* on a running recorder)
RunsAfter(log) ==
    \E i \in 1..Len(log) :
        /\ log[i].op = "Start"
        /\ ~log[i].err
        /\ \A j \in (i + 1)..Len(log) : log[j].op # "Stop"

NoHandler(log) == \A i \in 1..Len(log) : log[i].op # "RegisterHandler"

\* C29: IsRunning is true exactly when the last successful Start has not
\* been followed by a Stop on a running recorder; a new recorder is not
\* running, Start on a stopped recorder succeeds, Record on a running
\* recorder (no handler registered) succeeds, Stop on a running recorder
\* leaves it not running
C29_RunningFollowsCalls ==
    LET log == rec.calls
    IN  /\ IsRunning = RunsAfter(log)
        /\ \A k \in 1..Len(log) :
              LET before == SubSeq(log, 1, k - 1)
              IN  /\ (log[k].op = "Start" /\ ~RunsAfter(before)) => ~log[k].err
                  /\ (log[k].op = "Record" /\ RunsAfter(before) /\ NoHandler(before))
                        => ~log[k].err
                  /\ (log[k].op = "Stop" /\ RunsAfter(before))
                        => ~RunsAfter(SubSeq(log, 1, k))

\* Start, Record, and a Stop whose Save failed: the recorder is stopped
C29_Witness ==
    /\ Len(rec.calls) = 3
    /\ rec.calls[1] = [op |-> "Start", err |-> FALSE]
    /\ rec.calls[2] = [op |-> "Record", err |-> FALSE]
    /\ rec.calls[3] = [op |-> "Stop", err |-> TRUE]
    /\ ~IsRunning


(***************************************************************************)
(* The capture file (SpecF).                                               *)
(***************************************************************************)
\* id, data and type of the frames of a session, in order
Captured(x) ==
    [k \in 1..Len(x.Frames) |->
        [ID |-> x.Frames[k].ID, Data |-> x.Frames[k].Data, Type |-> x.Frames[k].Type]]

\* C30: the session LoadSession returns for the file of a closed session
\* has the captured frames, in capture order, with their id, data and type,
\* and the session's vehicle info, start time and end time
C30_RoundTrip ==
    cap.pc = "loaded" =>
        /\ Captured(cap.loaded) = Captured(cap.s)
        /\ cap.loaded.VehicleInfo = cap.s.VehicleInfo
        /\ cap.loaded.StartTime = cap.s.StartTime
        /\ cap.loaded.EndTime = cap.s.EndTime


(***************************************************************************)
(* The vehicle Manager (SpecV).                                            *)
(***************************************************************************)
\* the step is a call of op on the manager
VCall(op) == mgr' # mgr /\ mgr'.last.op = op

\* C31: each VIN maps to at most one vehicle, the one carrying that VIN;
\* RegisterVehicle with a VIN already registered returns an error and leaves
\* every registered vehicle (make, model, year, state) as it was; GetVehicle
\* and UpdateVehicleState with a VIN never registered return an error and
\* change no vehicle.
C31_OneVehiclePerVIN ==
    [][/\ \A vin \in DOMAIN mgr'.vehicles : mgr'.vehicles[vin].VIN = vin
       /\ VCall("RegisterVehicle") /\ Exists(mgr, mgr'.last.vin)
             => mgr'.last.err /\ mgr'.vehicles = mgr.vehicles
       /\ (VCall("GetVehicle") \/ VCall("UpdateVehicleState")) /\ ~Exists(mgr, mgr'.last.vin)
             => mgr'.last.err /\ mgr'.vehicles = mgr.vehicles]_vars

\* a vehicle was registered, its state updated, and a second registration of
\* its VIN has just been refused
C31_Witness ==
    /\ mgr.last.op = "RegisterVehicle"
    /\ mgr.last.err
    /\ mgr.vehicles[mgr.last.vin].State.Speed = 60


(***************************************************************************)
(* Declared lengths (SpecW, SpecC).                                        *)
(***************************************************************************)
\* the declared length of the frame exceeds the 8 data bytes of a frame
Overlong(f) == D(f, 0) > 8

\* C32: a response whose declared length exceeds the bytes of the frame is
\* an invalid response, no answer for its sub-query: the refresh that reads
\* one goes on, with no field set from it.
C32_OverlongIsNoAnswer ==
    [][Pops /\ Overlong(Head(frameChan))
          => ~wk'.crashed /\ wk'.ok = wk.ok /\ wk'.info = wk.info]_vars


\* frame f with the byte at offset k replaced by v
WithByte(f, k, v) == [f EXCEPT !.data[k + 1] = v]

MapValueReturned == call.fn = "getMapValue" /\ call.done /\ call.ret.err = "none"

\* C34 as claimed: the value is formed by the first two bytes of the payload
\* data[2..], high byte first
C34_ValueFromPayloadStart ==
    MapValueReturned
        => call.ret.val = D(call.frame, 2) * 256 + D(call.frame, 3)

\* C34 amended: the value is the unsigned 16 bit integer formed by the bytes
\* at offsets 3 and 4 of the response, high byte first (before the division
\* by 100), so it lies between 0 and 65535 hundredths; no other byte of the
\* frame has a part in it: whatever a byte at another offset is, the frame,
\* if still accepted, gives the same value.
C34_ValueFromBytes3And4 ==
    MapValueReturned =>
        /\ call.ret.val = D(call.frame, 3) * 256 + D(call.frame, 4)
        /\ call.ret.val \in 0..65535
        /\ \A k \in (0..7) \ {3, 4}, v \in MapBytes \cup {5, AckInfo} :
              LET other == mapValueOf(WithByte(call.frame, k, v))
              IN  other.err = "none" => other.val = call.ret.val

\* 0x04D2 at offsets 3 and 4, 0xFF before them: 12.34
C34_Witness ==
    /\ MapValueReturned
    /\ call.frame.data = <<5, 73, 255, 4, 210, 0, 0, 0>>
    /\ call.ret.val = 1234


(***************************************************************************)
(* Frames read by a tick (SpecD, SpecX).                                   *)
(***************************************************************************)
\* C35: the trouble code exchange of a tick stops reading the channel as
\* soon as it has read a matching mode 03 response: while it is waiting with
\* that response read, it takes no further frame, so a frame that arrives
\* after the response stays in the channel for the drain.
C35_StopsAtResponse ==
    [][(tele.pc = "dtcwait" /\ ex["tele"].got) => ~ReadBy("tele")]_vars


(***************************************************************************)
(* The frames of a Recorder's session (SpecR).                             *)
(***************************************************************************)
\* the numbers of the calls of Record that returned no error, in call order
Recorded(log) ==
    SelectSeq([k \in 1..Len(log) |-> k],
              LAMBDA k : log[k].op = "Record" /\ ~log[k].err)

\* the step is a call of op on the recorder
RCall(op) == rec' # rec /\ rec'.calls[Len(rec'.calls)].op = op

RFailed == rec'.calls[Len(rec'.calls)].err

\* C36: the session's frames are exactly the frames of the calls of Record
\* that returned no error, in call order; Record on a recorder that is not
\* running, and Record that returns an error on a running one (its handler
\* failed), add no frame; Start on a running recorder and Stop on a stopped
\* one return an error and leave the running flag and the frames as they
\* were.
C36_FramesAreTheRecorded ==
    /\ [](/\ Len(rec.frames) = Len(Recorded(rec.calls))
          /\ \A i \in 1..Len(rec.frames) :
                rec.frames[i].Timestamp = Recorded(rec.calls)[i])
    /\ [][/\ RCall("Record") /\ ~rec.running => RFailed
          /\ RCall("Record") /\ RFailed => rec'.frames = rec.frames
          /\ (RCall("Start") /\ rec.running) \/ (RCall("Stop") /\ ~rec.running)
                => RFailed /\ rec'.running = rec.running /\ rec'.frames = rec.frames]_vars

\* RegisterHandler, Start, and a Record the handler refused: the recorder
\* runs and holds no frame
C36_Witness ==
    /\ Len(rec.calls) = 3
    /\ rec.calls[1].op = "RegisterHandler"
    /\ rec.calls[2] = [op |-> "Start", err |-> FALSE]
    /\ rec.calls[3] = [op |-> "Record", err |-> TRUE]
    /\ rec.running
    /\ rec.frames = <<>>


(***************************************************************************)
(* The frame a refresh exchange returns (SpecW).                           *)
(***************************************************************************)
\* C37: the frame an exchange of the refresh returns as its response came in
\* after the request of that exchange was sent, as the answer to it: a frame
\* that answers an earlier request, waiting in the channel when the request
\* is sent, is never the frame a field or a cell is filled from.
C37_AnswerIsToThisRequest ==
    [][(ReadBy("refresh") /\ Matches("refresh", Head(frameChan)))
          => Head(frameChan).re = ex["refresh"].tag]_vars


(***************************************************************************)
(* The bus from startup to shutdown (SpecL).                               *)
(***************************************************************************)
\* C38: a bus opened at startup stays connected until the shutdown cleanup:
\* no step disconnects it while the shutdown signal has not been given.
C38_ConnectedUntilShutdown == [][Releases => sd.pc # "wait"]_vars


(***************************************************************************)
(* Frames from the handler to their reader (SpecU).                        *)
(***************************************************************************)
\* the frames the drain of tick n has read, in the order it read them
DrainedIn(n) ==
    LET own == SelectSeq(ing.taken, LAMBDA e : e.by = "drain" /\ e.tick = n)
    IN  [i \in 1..Len(own) |-> own[i].frame]

Seqs(q) == {q[i].seq : i \in 1..Len(q)}

\* the ticks keep running: a drain of the channel is still to come
DrainToCome == tele.tick < MaxRounds \/ tele.pc \in {"dtcsend", "dtcwait", "drain"}

\* C40: the channel never holds more than its capacity; no frame is dropped:
\* every frame handed to the handler is held by it, is in the channel or has
\* been read, and the handler lets go of a frame only by appending it to the
\* channel; a frame the handler holds while a drain is still to come is
\* enqueued in the end.
C40_BoundedAndNothingDropped ==
    /\ [](Len(frameChan) <= ChanCap)
    /\ [](Seqs(ing.held) \cup Seqs(frameChan) \cup Seqs(ing.taken) = 1..inbound)
    /\ [][(ing.held # <<>> /\ ing'.held # ing.held)
             => frameChan' = Append(frameChan, Head(ing.held))]_vars
    /\ (ing.held # <<>> /\ DrainToCome) ~> (ing.held = <<>>)

\* the channel is full and the handler waits with the next frame, which it
\* was handed after a frame had been read off the channel
C40_Witness ==
    /\ Len(frameChan) = ChanCap
    /\ ing.held # <<>>
    /\ ing.taken # <<>>
    /\ DrainToCome

=============================================================================
